---- MODULE Spec2Model ----
(***************************************************************************)
(* Model of the compliance/quality scorer and of the readability           *)
(* optimization loop of pages/pages/user_dashboard.py.                     *)
(*                                                                         *)
(* Numbers that are floats in the source are exact fractions <<n, d>> with *)
(* d > 0 here.  A text is a sequence of blocks; a block is a literal piece *)
(* of text (see Blocks below) and blocks are joined by one space.           *)
(***************************************************************************)
EXTENDS Integers, Sequences, FiniteSets, TLC

VARIABLES
  _HAS_TEXTSTAT,  \* module flag set at import: the textstat library is installed
  doc,            \* scorer: the text about to be scored
  scored,         \* scorer: text and textstat answer of the last scoring run
  card,           \* scorer: result of the last build_pdf_matrix run
  rescored,       \* scorer: the last run scored the same text once more
  prev,           \* scorer: section names found and Structure value of the run before
  fn,             \* loop: which copy runs, "sop" or "summary"
  max_rounds,     \* loop: the round budget argument
  source_blank,   \* loop: generate_optimized_summary was given blank source text
  pc,             \* loop: position of the running call
  i,              \* loop: index of the for loop
  sop,            \* loop: current text (local sop / summary), <<>> for None
  logs,           \* loop: the log list
  ret,            \* loop: the returned text and err, each <<>> for None
  trace,          \* loop: generator calls and readability checks made so far
  raised,         \* loop: an exception escaped to the caller
  page,           \* dashboard: the page the browser session shows
  account,        \* dashboard: st.session_state["account"], <<>> when absent
  action,         \* dashboard: the "action" query parameter, <<>> when absent
  uploaded,       \* dashboard: the file held by the uploader, <<>> for None
  user_prompt,    \* dashboard: what the chat input holds in this page run
  step,           \* dashboard: position of the running page script
  visits,         \* dashboard: page runs started so far
  jump_to_uploads,        \* dashboard: session flag of the same name
  last_file_id,           \* dashboard: session value, <<>> for None
  summary,                \* dashboard: session value of the same name
  summary_docx,           \* dashboard: session value, <<>> for None
  summary_quality_score,  \* dashboard: session value, <<>> for None
  generated_sop_md,       \* dashboard: session value of the same name
  produced,       \* dashboard: what this page run made of the uploaded file
  audit,          \* audits: the in-memory list st.session_state.audit
  db,             \* audits: rows of the audits table, oldest first
  call,           \* audits: the last add_audit call and what the database did
  ncalls,         \* audits: add_audit calls made so far
  db_mode,        \* audits: what the database does to the calls of a dashboard session
  users,          \* register: st.session_state.users
  auth_user,      \* register: st.session_state.auth_user, <<>> for None
  submitted       \* register: the form or button of the last page run

scorerVars == <<doc, scored, card, rescored, prev>>
loopVars == <<fn, max_rounds, source_blank, pc, i, sop, logs, ret, trace, raised>>
auditVars == <<audit, db, call, ncalls, db_mode>>
dashVars == <<jump_to_uploads, last_file_id, summary, summary_docx,
              summary_quality_score, generated_sop_md>>
pageVars == <<page, account, action, uploaded, user_prompt, step, visits,
              produced>>
regVars == <<users, auth_user, submitted>>
appVars == <<pageVars, dashVars, auditVars, regVars>>
vars == <<_HAS_TEXTSTAT, doc, scored, card, rescored, prev, fn, max_rounds,
          source_blank, pc, i, sop, logs, ret, trace, raised, page, account,
          action, uploaded, user_prompt, step, visits, jump_to_uploads,
          last_file_id, summary, summary_docx, summary_quality_score,
          generated_sop_md, produced, audit, db, call, ncalls, db_mode,
          users, auth_user, submitted>>

\* ------------------------------------------------------------------ bounds
MaxLen == 2
MaxRounds == 3
MaxVisits == 2
MaxAudits == 3

\* ------------------------------------------------------------ exact numbers
Max(a, b) == IF a >= b THEN a ELSE b
Min(a, b) == IF a <= b THEN a ELSE b
Frac(n, d) == <<n, d>>
FInt(n) == <<n, 1>>
FLe(a, b) == a[1] * b[2] <= b[1] * a[2]
FLt(a, b) == a[1] * b[2] < b[1] * a[2]
FGe(a, b) == FLe(b, a)
FEq(a, b) == a[1] * b[2] = b[1] * a[2]
FSub(a, b) == <<a[1] * b[2] - b[1] * a[2], a[2] * b[2]>>
FDiv(a, b) == IF b[1] > 0 THEN <<a[1] * b[2], a[2] * b[1]>>
              ELSE <<(0 - a[1]) * b[2], a[2] * (0 - b[1])>>
FMin(a, b) == IF FLe(a, b) THEN a ELSE b
FMax(a, b) == IF FGe(a, b) THEN a ELSE b

\* round(n / d) to the nearest integer, ties to even (Python's round), d > 0
RoundHalfEven(n, d) ==
  LET q == n \div d
      r == n % d
  IN  IF 2 * r < d THEN q
      ELSE IF 2 * r > d THEN q + 1
      ELSE IF q % 2 = 0 THEN q ELSE q + 1

RECURSIVE SumSeq(_)
SumSeq(s) == IF s = <<>> THEN 0 ELSE Head(s) + SumSeq(Tail(s))

RECURSIVE SumOver(_, _)
SumOver(f, S) ==
  IF S = {} THEN 0
  ELSE LET x == CHOOSE y \in S : TRUE IN f[x] + SumOver(f, S \ {x})

\* ------------------------------------------------------------ fixed tables
structure_sections ==
  {"Title", "Purpose", "Scope", "Responsibilities", "Definitions",
   "References", "Procedure", "Safety", "Training", "Change Control",
   "Records", "Documentation", "Revision History", "Materials",
   "Equipment", "Stepwise"}

regulatory_terms ==
  {"21 CFR 210", "21 CFR 211", "21 CFR 11", "ICH", "EU GMP",
   "WHO GMP", "cGMP", "GMP", "PIC/S"}

safety_terms ==
  {"risk", "hazard", "PPE", "incident", "deviation", "CAPA",
   "spill", "lockout", "tagout", "exposure", "MSDS", "first aid"}

compliance_terms == {"compliance", "audit", "regulatory", "requirement", "standard"}

Metrics ==
  {"Structure", "Regulatory Compliance", "Safety Risk Coverage",
   "Compliance Keywords Coverage", "Traceability & Version Control",
   "Technical Accuracy", "Flesch Reading Ease", "Gunning Fog Index",
   "Avg Sentence Length", "Long Sentences Count", "Passive Voice Count",
   "Bullet/Numbering Usage", "ALL CAPS Section Count"}

weights_pdf_regulatory_10 ==
  [m \in Metrics |->
     CASE m \in {"Regulatory Compliance", "Structure", "Safety Risk Coverage",
                 "Compliance Keywords Coverage",
                 "Traceability & Version Control", "Technical Accuracy"} -> 10
       [] OTHER -> 5]

weights_pdf ==
  [m \in Metrics |->
     CASE m = "Regulatory Compliance" -> 15
       [] m \in {"Structure", "Safety Risk Coverage",
                 "Compliance Keywords Coverage",
                 "Traceability & Version Control", "Technical Accuracy"} -> 10
       [] OTHER -> 5]

ranges_pdf_long_no_mode ==
  [m \in Metrics |->
     CASE m = "Flesch Reading Ease" -> <<FInt(60), FInt(40)>>
       [] m = "Gunning Fog Index" -> <<FInt(12), FInt(15), "low_better">>
       [] m = "Avg Sentence Length" -> <<FInt(20), FInt(25), "low_better">>
       [] m = "Long Sentences Count" -> <<FInt(5), FInt(10)>>
       [] m = "Passive Voice Count" -> <<FInt(5), FInt(10), "low_better">>
       [] m = "ALL CAPS Section Count" -> <<FInt(0), FInt(2), "low_better">>
       [] OTHER -> <<FInt(1), Frac(1, 2)>>]

ranges_pdf ==
  [m \in Metrics |->
     CASE m = "Flesch Reading Ease" -> <<FInt(60), FInt(40)>>
       [] m = "Gunning Fog Index" -> <<FInt(12), FInt(15), "low_better">>
       [] m = "Avg Sentence Length" -> <<FInt(20), FInt(25), "low_better">>
       [] m = "Long Sentences Count" -> <<FInt(5), FInt(10), "low_better">>
       [] m = "Passive Voice Count" -> <<FInt(5), FInt(10), "low_better">>
       [] m = "ALL CAPS Section Count" -> <<FInt(0), FInt(2), "low_better">>
       [] OTHER -> <<FInt(1), Frac(1, 2)>>]

\* ------------------------------------------------------------------- texts
\* A block names a literal piece of text; a text is its blocks joined by " ":
\*   "Purpose"          Purpose
\*   "purposes"         purposes
\*   "cGMP risk audit"  cGMP risk audit
\*   "Version 1"        Version 1
\*   "."                .
\*   "- step"           a line of its own: newline, "- step"
\*   "SAFETY"           a line of its own: newline, "SAFETY", newline
\*   "it"               it
\*   "W24"              the word "alpha" 24 times
\*   "S30"              the word "it" 30 times
\*   "L7"               7 sentences of 26 times "alpha", each closed by "."
\*   "P7"               "is cleaned" 7 times
\*   "A30"              the word "alpha" 30 times
\*   "SOP"              three sentences of 12 words with the 16 section names,
\*                      two version marks and five bullet lines:
\*                        Title Purpose Scope Responsibilities Definitions
\*                        References Procedure Safety Training Change Control
\*                        Records. Documentation Revision History Materials
\*                        Equipment Stepwise Version 1 Version 2 it it.
\*                        - it it      (four such lines)
\*                        - it it it it.
Blocks ==
  {"Purpose", "purposes", "cGMP risk audit", "Version 1", ".", "- step",
   "SAFETY", "it", "W24", "S30", "L7", "P7", "A30", "SOP"}

RECURSIVE SeqsUpTo(_, _)
SeqsUpTo(S, n) ==
  IF n = 0 THEN {<<>>}
  ELSE LET shorter == SeqsUpTo(S, n - 1)
       IN  shorter \cup {Append(t, b) : t \in shorter, b \in S}

Texts == SeqsUpTo(Blocks, MaxLen)

\* What the regular expressions of the scorer see in a block: a run of n
\* words (\w+), c of them of 3 or more characters, p whitespace-separated
\* pieces, or a sentence terminator ([.!?]+).
Run(n, c, p) == [w |-> n, c |-> c, p |-> p, dot |-> FALSE]
Dot == [w |-> 0, c |-> 0, p |-> 0, dot |-> TRUE]

RECURSIVE Repeat(_, _)
Repeat(s, n) == IF n = 0 THEN <<>> ELSE s \o Repeat(s, n - 1)

Atoms(b) ==
  CASE b = "Purpose" -> <<Run(1, 1, 1)>>
    [] b = "purposes" -> <<Run(1, 1, 1)>>
    [] b = "cGMP risk audit" -> <<Run(3, 3, 3)>>
    [] b = "Version 1" -> <<Run(2, 1, 2)>>
    [] b = "." -> <<Dot>>
    [] b = "- step" -> <<Run(1, 1, 2)>>
    [] b = "SAFETY" -> <<Run(1, 1, 1)>>
    [] b = "it" -> <<Run(1, 0, 1)>>
    [] b = "W24" -> <<Run(24, 24, 24)>>
    [] b = "S30" -> <<Run(30, 0, 30)>>
    [] b = "L7" -> Repeat(<<Run(26, 26, 26), Dot>>, 7)
    [] b = "P7" -> <<Run(14, 7, 14)>>
    [] b = "A30" -> <<Run(30, 30, 30)>>
    [] b = "SOP" -> <<Run(12, 12, 12), Dot, Run(12, 8, 12), Dot, Run(12, 0, 17), Dot>>

RECURSIVE TextAtoms(_)
TextAtoms(text) ==
  IF text = <<>> THEN <<>> ELSE Atoms(Head(text)) \o TextAtoms(Tail(text))

\* re.search(rf"\b{sec}\b", text, re.I): the section names a block holds as whole words
SectionsIn(b) ==
  CASE b = "Purpose" -> {"Purpose"}
    [] b = "SAFETY" -> {"Safety"}
    [] b = "SOP" -> structure_sections
    [] OTHER -> {}

\* re.search(re.escape(term), text, re.I): the terms a block holds as substrings
TermsIn(b) ==
  CASE b = "cGMP risk audit" -> {"cGMP", "GMP", "risk", "audit"}
    [] OTHER -> {}

\* matches of traceability_terms, of _passive_count, _bullet_count and _all_caps_sections
TraceIn(b) == IF b = "Version 1" THEN 1 ELSE IF b = "SOP" THEN 2 ELSE 0
PassiveIn(b) == IF b = "P7" THEN 7 ELSE 0
BulletsIn(b) == IF b = "- step" THEN 1 ELSE IF b = "SOP" THEN 5 ELSE 0
CapsIn(b) == IF b = "SAFETY" THEN 1 ELSE 0

\* per block: the function from a block to its matches
RECURSIVE CountIn(_, _)
CountIn(per, text) ==
  IF text = <<>> THEN 0 ELSE per[Head(text)] + CountIn(per, Tail(text))

FoundIn(per, text) == UNION {per[text[k]] : k \in 1..Len(text)}

SectionsOf(text) == FoundIn([b \in Blocks |-> SectionsIn(b)], text)
TermsOf(text) == FoundIn([b \in Blocks |-> TermsIn(b)], text)

\* re.findall(r'\w+', text) and the words of 3 or more characters among them
WordCount(text) == LET a == TextAtoms(text) IN SumSeq([k \in 1..Len(a) |-> a[k].w])
ComplexCount(text) == LET a == TextAtoms(text) IN SumSeq([k \in 1..Len(a) |-> a[k].c])

\* [s for s in re.split(r'[.!?]+', text) if s.strip()]: each sentence as its
\* number of words and of whitespace-separated pieces
RECURSIVE SplitSentences(_, _, _)
SplitSentences(a, cur, acc) ==
  LET close == IF cur.p > 0 THEN Append(acc, cur) ELSE acc
  IN  IF a = <<>> THEN close
      ELSE IF Head(a).dot THEN SplitSentences(Tail(a), [w |-> 0, p |-> 0], close)
      ELSE SplitSentences(Tail(a),
                          [w |-> cur.w + Head(a).w, p |-> cur.p + Head(a).p], acc)

Sentences(text) == SplitSentences(TextAtoms(text), [w |-> 0, p |-> 0], <<>>)

\* ------------------------------------------------------- readability helpers
\* What textstat does on one text: each of its two functions returns a
\* number or raises.  The library is outside the repository, so its answer
\* is an input of the model.
TextstatOutcomes ==
  {[freOk |-> FALSE, fre |-> 0, gfiOk |-> FALSE, gfi |-> 0],
   [freOk |-> TRUE, fre |-> 60, gfiOk |-> TRUE, gfi |-> 12],
   [freOk |-> TRUE, fre |-> 50, gfiOk |-> TRUE, gfi |-> 14],
   [freOk |-> TRUE, fre |-> 0 - 50, gfiOk |-> TRUE, gfi |-> 1000],
   [freOk |-> TRUE, fre |-> 1000, gfiOk |-> FALSE, gfi |-> 0]}

TextstatMissing == [freOk |-> FALSE, fre |-> 0, gfiOk |-> FALSE, gfi |-> 0]

_flesch(text, ts) ==
  IF _HAS_TEXTSTAT /\ ts.freOk THEN FInt(ts.fre)
  ELSE LET words == WordCount(text)
           sents == Max(1, Len(Sentences(text)))
       IN  \* max(0.0, 100 - (words / sents - 14) * 5)
           FMax(FInt(0), Frac(170 * sents - 5 * words, sents))

\* without the fallback after a failing call: the call's number is taken
_gunning_fog_unguarded(text, ts) ==
  IF _HAS_TEXTSTAT THEN FInt(ts.gfi)
  ELSE LET words == WordCount(text)
           sents == Max(1, Len(Sentences(text)))
           complex_w == ComplexCount(text)
           W == Max(1, words)
       IN  Frac(2 * (words * W + 100 * complex_w * sents), 5 * sents * W)

_gunning_fog(text, ts) ==
  IF _HAS_TEXTSTAT /\ ts.gfiOk THEN FInt(ts.gfi)
  ELSE LET words == WordCount(text)
           sents == Max(1, Len(Sentences(text)))
           complex_w == ComplexCount(text)
           W == Max(1, words)
       IN  \* 0.4 * (words / sents + complex_w / W * 100)
           Frac(2 * (words * W + 100 * complex_w * sents), 5 * sents * W)

_normalize_fraction_floor(count, total) ==
  IF total # 0 THEN FMin(FInt(1), FInt(count \div Max(1, total))) ELSE FInt(0)

_normalize_fraction(count, total) ==
  IF total # 0 THEN FMin(FInt(1), Frac(count, Max(1, total))) ELSE FInt(0)

_score_from_range_no_floor(name, value) ==
  LET spec == ranges_pdf[name]
      good == spec[1]
      warn == spec[2]
  IN  IF Len(spec) = 2
      THEN IF FEq(good, FInt(1)) /\ FEq(warn, Frac(1, 2))
           THEN FMax(FInt(0), FMin(FInt(1), value))
           ELSE IF FGe(value, good) THEN FInt(1)
           ELSE FDiv(FSub(value, warn), FSub(good, warn))
      ELSE IF FLe(value, good) THEN FInt(1)
           ELSE FSub(FInt(1), FDiv(FSub(value, good), FSub(warn, good)))

_score_from_range_thresholded(name, value) ==
  LET spec == ranges_pdf[name]
      good == spec[1]
      warn == spec[2]
  IN  IF Len(spec) = 2
      THEN IF FGe(value, good) THEN FInt(1)
           ELSE IF FLe(value, warn) THEN FInt(0)
           ELSE FDiv(FSub(value, warn), FSub(good, warn))
      ELSE IF FLe(value, good) THEN FInt(1)
           ELSE IF FGe(value, warn) THEN FInt(0)
           ELSE FSub(FInt(1), FDiv(FSub(value, good), FSub(warn, good)))

_score_from_range_high_better(name, value) ==
  LET spec == ranges_pdf[name]
      good == spec[1]
      warn == spec[2]
  IN  IF FEq(good, FInt(1)) /\ FEq(warn, Frac(1, 2))
      THEN FMax(FInt(0), FMin(FInt(1), value))
      ELSE IF FGe(value, good) THEN FInt(1)
      ELSE IF FLe(value, warn) THEN FInt(0)
      ELSE FDiv(FSub(value, warn), FSub(good, warn))

_score_from_range(name, value) ==
  LET spec == ranges_pdf[name]
      good == spec[1]
      warn == spec[2]
  IN  IF Len(spec) = 2
      THEN IF FEq(good, FInt(1)) /\ FEq(warn, Frac(1, 2))
           THEN FMax(FInt(0), FMin(FInt(1), value))
           ELSE IF FGe(value, good) THEN FInt(1)
           ELSE IF FLe(value, warn) THEN FInt(0)
           ELSE FDiv(FSub(value, warn), FSub(good, warn))
      ELSE IF spec[3] = "low_better"
           THEN IF FLe(value, good) THEN FInt(1)
                ELSE IF FGe(value, warn) THEN FInt(0)
                ELSE FSub(FInt(1), FDiv(FSub(value, good), FSub(warn, good)))
           ELSE IF FGe(value, good) THEN FInt(1)
           ELSE IF FLe(value, warn) THEN FInt(0)
           ELSE FDiv(FSub(value, warn), FSub(good, warn))

_bullet_count_search(text) ==
  IF CountIn([b \in Blocks |-> BulletsIn(b)], text) > 0 THEN 1 ELSE 0
_bullet_count(text) == CountIn([b \in Blocks |-> BulletsIn(b)], text)
_passive_count_accumulating(text) ==
  CountIn([b \in Blocks |-> PassiveIn(b)], text) + card.raw["Passive Voice Count"][1]
_passive_count(text) == CountIn([b \in Blocks |-> PassiveIn(b)], text)
_all_caps_sections(text) == CountIn([b \in Blocks |-> CapsIn(b)], text)

found_sections(text) ==
  Cardinality({sec \in structure_sections : sec \in SectionsOf(text)})

score_sop_pdf_metrics(text, ts) ==
  LET structure == _normalize_fraction(found_sections(text), Cardinality(structure_sections))
      hits(terms) == Cardinality({t \in terms : t \in TermsOf(text)})
      regulatory == _normalize_fraction(hits(regulatory_terms), Cardinality(regulatory_terms))
      safety == _normalize_fraction(hits(safety_terms), Cardinality(safety_terms))
      comp_cov == _normalize_fraction(hits(compliance_terms), Cardinality(compliance_terms))
      trace_hits == CountIn([b \in Blocks |-> TraceIn(b)], text)
      sentences == Sentences(text)
      words == WordCount(text)
      long == {k \in 1..Len(sentences) : sentences[k].p > 25}
  IN  [m \in Metrics |->
         CASE m = "Structure" -> structure
           [] m = "Regulatory Compliance" -> regulatory
           [] m = "Safety Risk Coverage" -> safety
           [] m = "Compliance Keywords Coverage" -> comp_cov
           [] m = "Traceability & Version Control" -> FMin(FInt(1), Frac(trace_hits, 2))
           [] m = "Technical Accuracy" -> comp_cov
           [] m = "Flesch Reading Ease" -> _flesch(text, ts)
           [] m = "Gunning Fog Index" -> _gunning_fog(text, ts)
           [] m = "Avg Sentence Length" ->
                IF sentences # <<>> THEN Frac(words, Max(1, Len(sentences))) ELSE FInt(0)
           [] m = "Long Sentences Count" -> FInt(Cardinality(long))
           [] m = "Passive Voice Count" -> FInt(_passive_count(text))
           [] m = "Bullet/Numbering Usage" -> FMin(Frac(_bullet_count(text), 5), FInt(1))
           [] m = "ALL CAPS Section Count" -> FInt(_all_caps_sections(text))]

\* weighted values are in units of 0.0001 (round(x, 4)), the total in units
\* of 0.01 (round(x, 2))
build_pdf_matrix(text, ts) ==
  LET raw == score_sop_pdf_metrics(text, ts)
      norm == [k \in Metrics |-> _score_from_range(k, raw[k])]
      weighted == [k \in Metrics |->
                     RoundHalfEven(norm[k][1] * weights_pdf[k] * 10000, norm[k][2])]
  IN  [raw |-> raw, norm |-> norm, weighted |-> weighted,
       total |-> RoundHalfEven(SumOver(weighted, Metrics), 100)]

\* ------------------------------------------------- session state at start
\* st.session_state of a new browser session, with the defaults the
\* dashboard sets for the keys it reads ("" for text, None for the rest)
NoSummary == [by |-> "", src |-> <<>>, doc |-> [text |-> <<>>, ts |-> TextstatMissing]]
NoCall == [actor |-> "", event |-> "", detail |-> "", v2 |-> "", v1 |-> ""]
NoForm == [op |-> "", email |-> <<>>, username |-> <<>>]

PageIdle ==
  /\ page = "login"
  /\ account = <<>>
  /\ action = <<>>
  /\ uploaded = <<>>
  /\ user_prompt = ""
  /\ step = "idle"
  /\ visits = 0
  /\ jump_to_uploads = FALSE
  /\ last_file_id = <<>>
  /\ summary = NoSummary
  /\ summary_docx = <<>>
  /\ summary_quality_score = <<>>
  /\ generated_sop_md = [text |-> <<>>, ts |-> TextstatMissing]
  /\ produced = {}

NoAudits ==
  /\ audit = <<>>
  /\ db = <<>>
  /\ call = NoCall
  /\ ncalls = 0

AuditIdle ==
  /\ NoAudits
  /\ db_mode = [v2 |-> "ok", v1 |-> "ok"]

RegIdle ==
  /\ users = <<>>
  /\ auth_user = <<>>
  /\ submitted = NoForm

AppIdle == PageIdle /\ AuditIdle /\ RegIdle

\* ------------------------------------------------------------ scorer runs
NoCard ==
  [raw |-> [m \in Metrics |-> FInt(0)], norm |-> [m \in Metrics |-> FInt(0)],
   weighted |-> [m \in Metrics |-> 0], total |-> 0]

NoRun == [run |-> FALSE, sections |-> {}, structure |-> FInt(0)]

\* what is kept of a run when the next one replaces it
LastRun ==
  [run |-> scored.run,
   sections |-> structure_sections \cap SectionsOf(scored.text),
   structure |-> card.raw["Structure"]]

LoopIdle ==
  /\ fn = "none"
  /\ max_rounds = 0
  /\ source_blank = FALSE
  /\ pc = "idle"
  /\ i = 0
  /\ sop = <<>>
  /\ logs = <<>>
  /\ ret = [text |-> <<>>, err |-> <<>>]
  /\ trace = <<>>
  /\ raised = FALSE

ScoreInit ==
  /\ _HAS_TEXTSTAT \in BOOLEAN
  /\ doc = <<>>
  /\ scored = [run |-> FALSE, text |-> <<>>, ts |-> TextstatMissing]
  /\ card = NoCard
  /\ rescored = FALSE
  /\ prev = NoRun
  /\ LoopIdle
  /\ AppIdle

\* a new text arrives (an upload's summary, a generated SOP): here the old
\* text with one more block
NewText ==
  /\ Len(doc) < MaxLen
  /\ scored.run => scored.text = doc
  /\ \E b \in Blocks : doc' = Append(doc, b)
  /\ UNCHANGED <<_HAS_TEXTSTAT, scored, card, rescored, prev>>
  /\ UNCHANGED <<loopVars, appVars>>

\* build_pdf_matrix on a text not scored before
ScoreText ==
  /\ ~(scored.run /\ scored.text = doc)
  /\ \E ts \in (IF _HAS_TEXTSTAT THEN TextstatOutcomes ELSE {TextstatMissing}) :
       /\ card' = build_pdf_matrix(doc, ts)
       /\ scored' = [run |-> TRUE, text |-> doc, ts |-> ts]
  /\ rescored' = FALSE
  /\ prev' = LastRun
  /\ UNCHANGED <<_HAS_TEXTSTAT, doc>>
  /\ UNCHANGED <<loopVars, appVars>>

\* build_pdf_matrix once more on the text of the last run (a page rerun);
\* textstat answers as it did for this text
ScoreAgain ==
  /\ scored.run
  /\ scored.text = doc
  /\ card' = build_pdf_matrix(doc, scored.ts)
  /\ rescored' = TRUE
  /\ prev' = LastRun
  /\ UNCHANGED <<_HAS_TEXTSTAT, doc, scored>>
  /\ UNCHANGED <<loopVars, appVars>>

ScoreNext == NewText \/ ScoreText \/ ScoreAgain

ScoreSpec == ScoreInit /\ [][ScoreNext]_vars

\* ------------------------------------------------------ the generator (LLM)
\* Optional values: <<>> is None, <<x>> is the value x.
None == <<>>
Some(x) == <<x>>

\* A document the generator hands back: its text, and what textstat says
\* about that text.  The empty string is the document with no block.
EmptyString == [text |-> <<>>, ts |-> TextstatMissing]

LoopDocs ==
  {[text |-> <<"it">>, ts |-> TextstatMissing],
   [text |-> <<"Purpose">>, ts |-> TextstatMissing],
   [text |-> <<"Purpose">>,
    ts |-> [freOk |-> TRUE, fre |-> 60, gfiOk |-> TRUE, gfi |-> 12]],
   [text |-> <<"Purpose">>,
    ts |-> [freOk |-> TRUE, fre |-> 60, gfiOk |-> TRUE, gfi |-> 13]],
   [text |-> <<"it">>,
    ts |-> [freOk |-> TRUE, fre |-> 59, gfiOk |-> TRUE, gfi |-> 12]],
   [text |-> <<"purposes">>,
    ts |-> [freOk |-> TRUE, fre |-> 65, gfiOk |-> TRUE, gfi |-> 10]],
   [text |-> <<"W24">>,
    ts |-> [freOk |-> TRUE, fre |-> 70, gfiOk |-> FALSE, gfi |-> 0]]}

\* What one chat completion request runs into
ChatOutcomes ==
  {[kind |-> k, doc |-> EmptyString] :
     k \in {"no_client", "api_error", "api_error_blank", "no_content", "empty"}}
  \cup {[kind |-> "text", doc |-> d] : d \in LoopDocs}

Truthy_not_none(err) == err # None
Truthy(err) == err # None /\ err[1] # ""
Falsy(text) == text = None \/ text[1].text = <<>>

_chat_completion_unguarded(o) ==
  CASE o.kind = "no_client" ->
         [text |-> None, err |-> Some("Missing OpenAI API key"), exc |-> FALSE]
    [] o.kind \in {"api_error", "api_error_blank", "no_content"} ->
         [text |-> None, err |-> None, exc |-> TRUE]
    [] OTHER -> [text |-> Some(o.doc), err |-> None, exc |-> FALSE]

\* (text, err) of _chat_completion; exc: an exception leaves the function
_chat_completion(o) ==
  CASE o.kind = "no_client" ->
         [text |-> None, err |-> Some("Missing OpenAI API key"), exc |-> FALSE]
    [] o.kind = "api_error" ->
         [text |-> None, err |-> Some("api error"), exc |-> FALSE]
    [] o.kind = "api_error_blank" ->
         [text |-> None, err |-> Some(""), exc |-> FALSE]
    [] o.kind = "no_content" ->
         [text |-> None, err |-> Some("'NoneType' object has no attribute 'strip'"),
          exc |-> FALSE]
    [] o.kind = "empty" -> [text |-> Some(EmptyString), err |-> None, exc |-> FALSE]
    [] OTHER -> [text |-> Some(o.doc), err |-> None, exc |-> FALSE]

gpt_generate_full_sop(o) ==
  LET r == _chat_completion(o)
  IN  IF r.exc THEN r
      ELSE IF Truthy(r.err) THEN [text |-> None, err |-> r.err, exc |-> FALSE]
      ELSE [text |-> r.text, err |-> None, exc |-> FALSE]

\* on a non-empty answer the summary is post-processed (headings forced,
\* copied lines dropped, missing headings appended); o.doc stands for the
\* text after that, which always holds the appended headings
gpt_summarize_to_sop(o) ==
  LET r == _chat_completion(o)
  IN  IF r.exc THEN r
      ELSE IF Truthy(r.err) THEN [text |-> None, err |-> r.err, exc |-> FALSE]
      ELSE IF Falsy(r.text)
      THEN [text |-> None, err |-> Some("Empty summary from model"), exc |-> FALSE]
      ELSE [text |-> r.text, err |-> None, exc |-> FALSE]

_rewrite_for_readability(sop_text, o) == _chat_completion(o)

readability_scores_swapped(d) ==
  [fre |-> _gunning_fog(d.text, d.ts), gfi |-> _flesch(d.text, d.ts)]

readability_scores(d) ==
  [fre |-> _flesch(d.text, d.ts), gfi |-> _gunning_fog(d.text, d.ts)]

\* f"{x:.2f}": the value in hundredths
Fmt2(x) == RoundHalfEven(100 * x[1], x[2])

\* ------------------------------------------------- the optimization loop
\* One element of the log list; who tells the wording ("Round 1: ..." of the
\* SOP copy, "Round 1 (summary): ..." of the summary copy).
RoundEntry_zero_based(who, k, r) ==
  [kind |-> "round", who |-> who, round |-> k - 1, fre |-> Fmt2(r.fre),
   gfi |-> Fmt2(r.gfi), msg |-> ""]
RoundEntry(who, k, r) ==
  [kind |-> "round", who |-> who, round |-> k, fre |-> Fmt2(r.fre),
   gfi |-> Fmt2(r.gfi), msg |-> ""]
Note(who, kind, msg) ==
  [kind |-> kind, who |-> who, round |-> 0, fre |-> 0, gfi |-> 0, msg |-> msg]

\* One element of the trace: a generator call (draft, rewrite) with the text
\* passed, what the request ran into and the text handed back, or a
\* readability check (score) with the text checked and the two values
CallEvent(op, arg, o, out) ==
  [op |-> op, arg |-> arg, kind |-> o.kind, out |-> out,
   fre |-> FInt(0), gfi |-> FInt(0)]
ScoreEvent(d, r) ==
  [op |-> "score", arg |-> Some(d), kind |-> "text", out |-> None,
   fre |-> r.fre, gfi |-> r.gfi]

Returned(text, err) == [text |-> text, err |-> err]

LoopInit ==
  /\ _HAS_TEXTSTAT \in BOOLEAN
  /\ fn \in {"sop", "summary"}
  /\ max_rounds \in 0..MaxRounds
  /\ source_blank \in (IF fn = "summary" THEN BOOLEAN ELSE {FALSE})
  /\ pc = "start"
  /\ i = 0
  /\ sop = None
  /\ logs = <<>>
  /\ ret = Returned(None, None)
  /\ trace = <<>>
  /\ raised = FALSE
  /\ doc = <<>>
  /\ scored = [run |-> FALSE, text |-> <<>>, ts |-> TextstatMissing]
  /\ card = NoCard
  /\ rescored = FALSE
  /\ prev = NoRun
  /\ AppIdle

Raise ==
  /\ raised' = TRUE
  /\ pc' = "done"
  /\ UNCHANGED <<i, sop, logs, ret>>

\* --- generate_optimized_sop
sop_for_range_inclusive(k, n) == k <= n
sop_for_range(k, n) == k < n
sop_targets_met_strict(r) == FLt(FInt(60), r.fre) /\ FLt(r.gfi, FInt(12))
sop_targets_met_ease_only(r) == FGe(r.fre, FInt(60))
sop_targets_met(r) == FGe(r.fre, FInt(60)) /\ FLe(r.gfi, FInt(12))
sop_draft_failed(r) == Truthy(r.err) \/ Falsy(r.text)
sop_rewrite_failed_err_only(r) == Truthy(r.err)
sop_rewrite_failed(r) == Truthy(r.err) \/ Falsy(r.text)
\* sop = rewritten
sop_assign_rewritten_dropped(cur, r) == cur
sop_assign_rewritten(cur, r) == r.text

generate_optimized_sop_draft ==
  /\ pc = "start"
  /\ fn = "sop"
  /\ \E o \in ChatOutcomes :
       LET r == gpt_generate_full_sop(o)
       IN  /\ trace' = Append(trace, CallEvent("draft", None, o, r.text))
           /\ IF r.exc THEN Raise
              ELSE IF sop_draft_failed(r)
              THEN /\ ret' = Returned(None, Some(IF Truthy(r.err) THEN r.err[1]
                                                 ELSE "Failed to draft SOP"))
                   /\ pc' = "done"
                   /\ UNCHANGED <<i, sop, logs, raised>>
              ELSE IF sop_for_range(0, max_rounds)
              THEN /\ sop' = r.text
                   /\ i' = 0
                   /\ pc' = "round"
                   /\ UNCHANGED <<logs, ret, raised>>
              ELSE /\ sop' = r.text
                   /\ logs' = Append(logs, Note("sop", "max_rounds", ""))
                   /\ ret' = Returned(r.text, None)
                   /\ pc' = "done"
                   /\ UNCHANGED <<i, raised>>
  /\ UNCHANGED <<_HAS_TEXTSTAT, fn, max_rounds, source_blank>>
  /\ UNCHANGED <<scorerVars, appVars>>

generate_optimized_sop_round ==
  /\ pc = "round"
  /\ fn = "sop"
  /\ LET r == readability_scores(sop[1])
         entry == RoundEntry("sop", i + 1, r)
     IN  /\ trace' = Append(trace, ScoreEvent(sop[1], r))
         /\ IF sop_targets_met(r)
            THEN /\ logs' = logs \o <<entry, Note("sop", "met", "")>>
                 /\ ret' = Returned(sop, None)
                 /\ pc' = "done"
            ELSE /\ logs' = logs \o <<entry, Note("sop", "rewriting", "")>>
                 /\ pc' = "rewrite"
                 /\ UNCHANGED ret
  /\ UNCHANGED <<_HAS_TEXTSTAT, fn, max_rounds, source_blank, i, sop, raised>>
  /\ UNCHANGED <<scorerVars, appVars>>

generate_optimized_sop_rewrite ==
  /\ pc = "rewrite"
  /\ fn = "sop"
  /\ \E o \in ChatOutcomes :
       LET r == _rewrite_for_readability(sop[1], o)
       IN  /\ trace' = Append(trace, CallEvent("rewrite", sop, o, r.text))
           /\ IF r.exc THEN Raise
              ELSE IF sop_rewrite_failed(r)
              THEN /\ logs' = logs \o
                        <<Note("sop", "rewrite_failed",
                               IF Truthy(r.err) THEN r.err[1] ELSE "unknown error"),
                          Note("sop", "max_rounds", "")>>
                   /\ ret' = Returned(sop, None)
                   /\ pc' = "done"
                   /\ UNCHANGED <<i, sop, raised>>
              ELSE IF sop_for_range(i + 1, max_rounds)
              THEN /\ sop' = sop_assign_rewritten(sop, r)
                   /\ i' = i + 1
                   /\ pc' = "round"
                   /\ UNCHANGED <<logs, ret, raised>>
              ELSE /\ sop' = sop_assign_rewritten(sop, r)
                   /\ i' = i + 1
                   /\ logs' = Append(logs, Note("sop", "max_rounds", ""))
                   /\ ret' = Returned(sop_assign_rewritten(sop, r), None)
                   /\ pc' = "done"
                   /\ UNCHANGED raised
  /\ UNCHANGED <<_HAS_TEXTSTAT, fn, max_rounds, source_blank>>
  /\ UNCHANGED <<scorerVars, appVars>>

\* --- generate_optimized_summary
summary_for_range_short(k, n) == k + 1 < n
summary_for_range(k, n) == k < n
summary_targets_met_either(r) == FGe(r.fre, FInt(60)) \/ FLe(r.gfi, FInt(12))
summary_targets_met(r) == FGe(r.fre, FInt(60)) /\ FLe(r.gfi, FInt(12))
summary_draft_failed(r) == Truthy(r.err) \/ Falsy(r.text)
summary_rewrite_failed_err_only(r) == Truthy(r.err)
summary_rewrite_failed(r) == Truthy(r.err) \/ Falsy(r.text)
\* summary = rewritten
summary_assign_rewritten_dropped(cur, r) == cur
summary_assign_rewritten(cur, r) == r.text

generate_optimized_summary_blank ==
  /\ pc = "start"
  /\ fn = "summary"
  /\ source_blank
  /\ ret' = Returned(None, Some("No text extracted"))
  /\ pc' = "done"
  /\ UNCHANGED <<_HAS_TEXTSTAT, fn, max_rounds, source_blank, i, sop, logs,
                 trace, raised>>
  /\ UNCHANGED <<scorerVars, appVars>>

generate_optimized_summary_draft ==
  /\ pc = "start"
  /\ fn = "summary"
  /\ ~source_blank
  /\ \E o \in ChatOutcomes :
       LET r == gpt_summarize_to_sop(o)
       IN  /\ trace' = Append(trace, CallEvent("draft", None, o, r.text))
           /\ IF r.exc THEN Raise
              ELSE IF summary_draft_failed(r)
              THEN /\ ret' = Returned(None, Some(IF Truthy(r.err) THEN r.err[1]
                                                 ELSE "Summarization failed"))
                   /\ pc' = "done"
                   /\ UNCHANGED <<i, sop, logs, raised>>
              ELSE IF summary_for_range(0, max_rounds)
              THEN /\ sop' = r.text
                   /\ i' = 0
                   /\ pc' = "round"
                   /\ UNCHANGED <<logs, ret, raised>>
              ELSE /\ sop' = r.text
                   /\ logs' = Append(logs, Note("summary", "max_rounds", ""))
                   /\ ret' = Returned(r.text, None)
                   /\ pc' = "done"
                   /\ UNCHANGED <<i, raised>>
  /\ UNCHANGED <<_HAS_TEXTSTAT, fn, max_rounds, source_blank>>
  /\ UNCHANGED <<scorerVars, appVars>>

generate_optimized_summary_round ==
  /\ pc = "round"
  /\ fn = "summary"
  /\ LET r == readability_scores(sop[1])
         entry == RoundEntry("summary", i + 1, r)
     IN  /\ trace' = Append(trace, ScoreEvent(sop[1], r))
         /\ IF summary_targets_met(r)
            THEN /\ logs' = logs \o <<entry, Note("summary", "met", "")>>
                 /\ ret' = Returned(sop, None)
                 /\ pc' = "done"
            ELSE /\ logs' = logs \o <<entry, Note("summary", "rewriting", "")>>
                 /\ pc' = "rewrite"
                 /\ UNCHANGED ret
  /\ UNCHANGED <<_HAS_TEXTSTAT, fn, max_rounds, source_blank, i, sop, raised>>
  /\ UNCHANGED <<scorerVars, appVars>>

generate_optimized_summary_rewrite ==
  /\ pc = "rewrite"
  /\ fn = "summary"
  /\ \E o \in ChatOutcomes :
       LET r == _rewrite_for_readability(sop[1], o)
       IN  /\ trace' = Append(trace, CallEvent("rewrite", sop, o, r.text))
           /\ IF r.exc THEN Raise
              ELSE IF summary_rewrite_failed(r)
              THEN /\ logs' = logs \o
                        <<Note("summary", "rewrite_failed",
                               IF Truthy(r.err) THEN r.err[1] ELSE "unknown error"),
                          Note("summary", "max_rounds", "")>>
                   /\ ret' = Returned(sop, None)
                   /\ pc' = "done"
                   /\ UNCHANGED <<i, sop, raised>>
              ELSE IF summary_for_range(i + 1, max_rounds)
              THEN /\ sop' = summary_assign_rewritten(sop, r)
                   /\ i' = i + 1
                   /\ pc' = "round"
                   /\ UNCHANGED <<logs, ret, raised>>
              ELSE /\ sop' = summary_assign_rewritten(sop, r)
                   /\ i' = i + 1
                   /\ logs' = Append(logs, Note("summary", "max_rounds", ""))
                   /\ ret' = Returned(summary_assign_rewritten(sop, r), None)
                   /\ pc' = "done"
                   /\ UNCHANGED raised
  /\ UNCHANGED <<_HAS_TEXTSTAT, fn, max_rounds, source_blank>>
  /\ UNCHANGED <<scorerVars, appVars>>

LoopNext ==
  \/ generate_optimized_sop_draft
  \/ generate_optimized_sop_round
  \/ generate_optimized_sop_rewrite
  \/ generate_optimized_summary_blank
  \/ generate_optimized_summary_draft
  \/ generate_optimized_summary_round
  \/ generate_optimized_summary_rewrite

LoopSpec == LoopInit /\ [][LoopNext]_vars

\* every generator call answers (with a text, an empty text or an error), so
\* a call that can take a step takes it
FairLoopSpec == LoopSpec /\ WF_vars(LoopNext)

\* ------------------------------------------------- properties of the loop
RECURSIVE CountEvents(_, _)
CountEvents(t, ops) ==
  IF t = <<>> THEN 0
  ELSE (IF Head(t).op \in ops THEN 1 ELSE 0) + CountEvents(Tail(t), ops)

Calls == CountEvents(trace, {"draft", "rewrite"})
Rewrites == CountEvents(trace, {"rewrite"})
Evals == CountEvents(trace, {"score"})
HasNote(kind) == \E j \in 1..Len(logs) : logs[j].kind = kind
RoundEntries == SelectSeq(logs, LAMBDA e : e.kind = "round")
DraftOk == trace # <<>> /\ trace[1].op = "draft" /\ trace[1].kind = "text"
MeetsTargets(e) == FGe(e.fre, FInt(60)) /\ FLe(e.gfi, FInt(12))
LastEvent == trace[Len(trace)]

\* C1: whatever the generator answers (a text, an empty text, an error), the
\* call returns, and it makes at most max_rounds + 1 generator calls: the
\* draft call and at most max_rounds rewrite calls.
C1_ReturnsWithinBudget ==
  /\ [](Calls <= max_rounds + 1 /\ Rewrites <= max_rounds)
  /\ <>(pc = "done")

C1_Witness ==
  /\ pc = "done"
  /\ max_rounds = MaxRounds
  /\ Rewrites = max_rounds
  /\ Calls = max_rounds + 1

\* C2: a round whose measured values satisfy ease >= 60 and fog <= 12 ends
\* the call: the text just scored is returned with no error, the success
\* note closes the log, and no rewrite call follows the check.
C2_MetStopsAtOnce ==
  \A k \in 1..Len(trace) :
    (trace[k].op = "score" /\ MeetsTargets(trace[k])) =>
      /\ k = Len(trace)
      /\ pc = "done"
      /\ ~raised
      /\ ret = Returned(trace[k].arg, None)
      /\ logs[Len(logs)].kind = "met"

C2_Witness ==
  /\ pc = "done"
  /\ Rewrites >= 1
  /\ LastEvent.op = "score"
  /\ FEq(LastEvent.fre, FInt(60))
  /\ FEq(LastEvent.gfi, FInt(12))

\* C3: every return that hands back a text is in exactly one of the terminal
\* states Met, RoundsExhausted, RewriteFailed, as told by the notes of the
\* log: never two of them, never none.
C3_ExactlyOneTerminalState ==
  (pc = "done" /\ ~raised /\ ret.err = None) =>
    Cardinality({k \in {"met", "max_rounds", "rewrite_failed"} : HasNote(k)}) = 1

\* C4: a rewrite call that fails or hands back an empty text ends the call at
\* once: a failure note is logged, no further round runs, the text passed to
\* that rewrite is returned unchanged and no error is reported.
C4_RewriteFailureKeepsText ==
  \A k \in 1..Len(trace) :
    (trace[k].op = "rewrite" /\ trace[k].kind # "text") =>
      /\ k = Len(trace)
      /\ pc = "done"
      /\ ~raised
      /\ HasNote("rewrite_failed")
      /\ ret = Returned(trace[k].arg, None)
      /\ Evals = Rewrites

C4_Witness ==
  /\ pc = "done"
  /\ Rewrites >= 2
  /\ LastEvent.op = "rewrite"
  /\ LastEvent.kind = "empty"
  /\ ret.text = LastEvent.arg

\* the case of C5: the draft succeeded, no round met the targets and every
\* rewrite call succeeded
NothingMetAllRewritten ==
  /\ pc = "done"
  /\ ~raised
  /\ DraftOk
  /\ \A k \in 1..Len(trace) :
       /\ trace[k].op = "score" => ~MeetsTargets(trace[k])
       /\ trace[k].op = "rewrite" => trace[k].kind = "text"

ExhaustedOutcome ==
  /\ Evals = max_rounds
  /\ Rewrites = max_rounds
  /\ HasNote("max_rounds")
  /\ ~HasNote("met")
  /\ ~HasNote("rewrite_failed")
  /\ ret = Returned(LastEvent.out, None)

\* C5 as stated: in that case the loop runs max_rounds rounds, calls rewrite
\* max_rounds times, ends in RoundsExhausted with the last text, and the log
\* holds exactly max_rounds entries (budgets of one round and more).
C5_LogHoldsMaxRoundsEntries ==
  (NothingMetAllRewritten /\ max_rounds >= 1) =>
    (ExhaustedOutcome /\ Len(logs) = max_rounds)

\* C5 as amended: in that case the loop runs max_rounds rounds, calls rewrite
\* max_rounds times, ends in RoundsExhausted with the last text, and the log
\* holds exactly max_rounds round entries, each followed by a rewriting note,
\* and the closing note: 2 * max_rounds + 1 elements.
C5_LogHoldsMaxRoundsRoundEntries ==
  NothingMetAllRewritten =>
    /\ ExhaustedOutcome
    /\ Len(RoundEntries) = max_rounds
    /\ \A k \in 1..max_rounds :
         /\ logs[2 * k - 1].kind = "round"
         /\ logs[2 * k - 1].round = k
         /\ logs[2 * k].kind = "rewriting"
    /\ Len(logs) = 2 * max_rounds + 1
    /\ logs[Len(logs)].kind = "max_rounds"

C5_Witness ==
  /\ NothingMetAllRewritten
  /\ max_rounds = MaxRounds
  /\ Rewrites = MaxRounds

\* C6 as stated: the call never raises and always hands back a non-empty
\* text, also when the draft call fails or the input is blank.
C6_AlwaysUsableText ==
  /\ ~raised
  /\ pc = "done" => ~Falsy(ret.text)

\* C6 as amended: the call never raises; when the draft call hands back a
\* text it returns a non-empty text and no error; when the draft call fails
\* or hands back nothing, or the source text is blank, it returns no text
\* (None) and a non-empty error message.
C6_TextOrErrorMessage ==
  /\ ~raised
  /\ pc = "done" =>
       IF DraftOk THEN ~Falsy(ret.text) /\ ret.err = None
       ELSE ret.text = None /\ Truthy(ret.err)

C6_Witness ==
  /\ pc = "done"
  /\ trace # <<>>
  /\ trace[1].kind = "api_error"
  /\ ret.text = None
  /\ ret.err = Some("api error")

\* ----------------------------------------------- properties of the scorer
ScoredSections == structure_sections \cap SectionsOf(scored.text)

\* C7: whatever the raw values are, every sub-score lies in [0, 1], every
\* weighted value in [0, weight] and the total in [0, 100].
C7_ScoresBounded ==
  scored.run =>
    /\ \A m \in Metrics :
         /\ FLe(FInt(0), card.norm[m])
         /\ FLe(card.norm[m], FInt(1))
         /\ 0 <= card.weighted[m]
         /\ card.weighted[m] <= weights_pdf[m] * 10000
    /\ 0 <= card.total
    /\ card.total <= 10000

C7_Witness ==
  /\ scored.run
  /\ _HAS_TEXTSTAT
  /\ FLt(card.raw["Flesch Reading Ease"], FInt(0))
  /\ FLt(FInt(100), card.raw["Gunning Fog Index"])
  /\ FLt(FInt(0), card.norm["Passive Voice Count"])
  /\ FLt(card.norm["Passive Voice Count"], FInt(1))

C9_EmptyTextScoresZero ==
  (scored.run /\ ~_HAS_TEXTSTAT /\ scored.text = <<>>) =>
    /\ \A m \in Metrics : FEq(card.raw[m], FInt(0))
    /\ card.total = 0

\* C10: the raw Structure value is the number of distinct section names
\* found, divided by 16 and capped at 1, and a text holding the section
\* names of the text scored before it, and more, never has a lower value.
C10_StructureMonotone ==
  scored.run =>
    /\ FEq(card.raw["Structure"], Frac(Min(Cardinality(ScoredSections), 16), 16))
    /\ (prev.run /\ prev.sections \subseteq ScoredSections) =>
         FGe(card.raw["Structure"], prev.structure)

C10_Witness ==
  /\ scored.run
  /\ prev.run
  /\ prev.sections \subseteq ScoredSections
  /\ Cardinality(ScoredSections) = Cardinality(prev.sections) + 1
  /\ FLt(prev.structure, card.raw["Structure"])

\* ---------------------------------------------------- scenarios of the loop
FirstScore == SelectSeq(trace, LAMBDA e : e.op = "score")[1]
RewriteEvents == SelectSeq(trace, LAMBDA e : e.op = "rewrite")

\* the case of C11: the draft misses the targets and every rewrite call
\* raises inside the request (which _chat_completion turns into an error)
RewriteAlwaysRaises ==
  /\ pc = "done"
  /\ ~raised
  /\ DraftOk
  /\ Evals >= 1
  /\ ~MeetsTargets(FirstScore)
  /\ Rewrites >= 1
  /\ \A k \in 1..Len(RewriteEvents) :
       RewriteEvents[k].kind \in {"api_error", "api_error_blank", "no_content"}

\* C11: in that case the call ends after round 1 in state RewriteFailed
\* (and in no other terminal state), returns the initial text, and its log
\* is exactly one round entry plus one failure note.
C11_RewriteFailedLogOfTwo ==
  RewriteAlwaysRaises =>
    /\ Evals = 1
    /\ Rewrites = 1
    /\ ret = Returned(trace[1].out, None)
    /\ HasNote("rewrite_failed")
    /\ ~HasNote("max_rounds")
    /\ ~HasNote("met")
    /\ Len(logs) = 2
    /\ logs[1].kind = "round"
    /\ logs[1].round = 1
    /\ logs[2].kind = "rewrite_failed"

\* the estimator's two values for a document are exactly e and f
EaseFog(d, e, f) ==
  /\ FEq(_flesch(d.text, d.ts), FInt(e))
  /\ FEq(_gunning_fog(d.text, d.ts), FInt(f))

\* the case of C12: the draft succeeded and every rewrite call made handed
\* back a text whose readability is ease = 65, fog = 10
RewriteAlwaysGood ==
  /\ pc = "done"
  /\ ~raised
  /\ DraftOk
  /\ max_rounds >= 1
  /\ \A k \in 1..Len(RewriteEvents) :
       /\ RewriteEvents[k].kind = "text"
       /\ EaseFog(RewriteEvents[k].out[1], 65, 10)

\* C12 as stated: in that case the call returns in state Met after round 1
\* (one round entry in the log), for every budget of one round and more and
\* whatever the initial text scores.
C12_MetAfterRoundOne ==
  RewriteAlwaysGood =>
    /\ HasNote("met")
    /\ Len(RoundEntries) = 1
    /\ ret.err = None

\* C12 as amended: in that case, an initial text that meets the targets is
\* returned in state Met in round 1 with no rewrite call; an initial text
\* that misses them is rewritten once, and the rewritten text is returned
\* in state Met in round 2 when max_rounds >= 2, and unscored in state
\* RoundsExhausted when max_rounds = 1.
C12_MetOnceRewrittenTextIsScored ==
  RewriteAlwaysGood =>
    IF MeetsTargets(FirstScore)
    THEN /\ Evals = 1
         /\ Rewrites = 0
         /\ HasNote("met")
         /\ ret = Returned(trace[1].out, None)
    ELSE IF max_rounds >= 2
    THEN /\ Evals = 2
         /\ Rewrites = 1
         /\ HasNote("met")
         /\ ~HasNote("max_rounds")
         /\ ret = Returned(RewriteEvents[1].out, None)
    ELSE /\ Evals = 1
         /\ Rewrites = 1
         /\ ~HasNote("met")
         /\ HasNote("max_rounds")
         /\ ret = Returned(RewriteEvents[1].out, None)

C12_Witness ==
  /\ RewriteAlwaysGood
  /\ max_rounds = MaxRounds
  /\ Rewrites = 1
  /\ HasNote("met")
  /\ Len(RoundEntries) = 2

\* -------------------------------------------------- scenarios of the scorer
ScoredTerms == TermsOf(scored.text)

\* the text scored holds nothing the keyword, version and bullet metrics reward
NothingRewarded ==
  /\ ScoredTerms = {}
  /\ CountIn([b \in Blocks |-> TraceIn(b)], scored.text) = 0
  /\ CountIn([b \in Blocks |-> BulletsIn(b)], scored.text) = 0

\* the case of C13: no section name, no regulatory term, one sentence of 30
\* words, each a whitespace-separated piece of its own
PlainLongSentence ==
  /\ scored.run
  /\ ScoredSections = {}
  /\ ScoredTerms \cap regulatory_terms = {}
  /\ Len(Sentences(scored.text)) = 1
  /\ WordCount(scored.text) = 30
  /\ Sentences(scored.text)[1].p = 30

PlainLongSentenceRaw ==
  /\ FEq(card.raw["Structure"], FInt(0))
  /\ FEq(card.raw["Regulatory Compliance"], FInt(0))
  /\ FEq(card.raw["Avg Sentence Length"], FInt(30))
  /\ FEq(card.raw["Long Sentences Count"], FInt(1))

\* C13 as stated: for such a text Structure = 0, Regulatory Compliance = 0,
\* Avg Sentence Length = 30, Long Sentences Count = 1 and the total is
\* below 20.
C13_PlainLongSentenceBelow20 ==
  PlainLongSentence => (PlainLongSentenceRaw /\ card.total < 2000)

\* C13 as amended: for such a text Structure = 0, Regulatory Compliance = 0,
\* Avg Sentence Length = 30 (sub-score 0), Long Sentences Count = 1
\* (sub-score 1, weighted 5), and the total is at least 5; when the text
\* holds no safety or compliance term, no version mark or date and no bullet
\* line either, the total is at most 25.
C13_PlainLongSentenceAtMost25 ==
  PlainLongSentence =>
    /\ PlainLongSentenceRaw
    /\ FEq(card.norm["Avg Sentence Length"], FInt(0))
    /\ FEq(card.norm["Long Sentences Count"], FInt(1))
    /\ card.weighted["Long Sentences Count"] = 50000
    /\ card.total >= 500
    /\ NothingRewarded => card.total <= 2500

C13_Witness ==
  /\ PlainLongSentence
  /\ NothingRewarded
  /\ card.total = 2500

\* the case of C14: all 16 section names, 5 bullet lines or more, two
\* version marks, an average sentence length of 12 words
FullSop ==
  /\ scored.run
  /\ ScoredSections = structure_sections
  /\ CountIn([b \in Blocks |-> BulletsIn(b)], scored.text) >= 5
  /\ CountIn([b \in Blocks |-> TraceIn(b)], scored.text) = 2
  /\ FEq(card.raw["Avg Sentence Length"], FInt(12))

FullSopValues ==
  /\ FEq(card.raw["Structure"], FInt(1))
  /\ FEq(card.norm["Structure"], FInt(1))
  /\ card.weighted["Structure"] = 100000
  /\ FEq(card.raw["Bullet/Numbering Usage"], FInt(1))
  /\ FEq(card.raw["Traceability & Version Control"], FInt(1))

\* C14 as stated: for such a text Structure = 1.0 (sub-score 1.0, weighted
\* 10), Bullet/Numbering Usage = 1.0, Traceability = 1.0 and the total is
\* above 70.
C14_FullSopAbove70 ==
  FullSop => (FullSopValues /\ card.total > 7000)

\* C14 as amended: for such a text Structure = 1.0 (sub-score 1.0, weighted
\* 10), Bullet/Numbering Usage = 1.0, Traceability = 1.0 and the total is
\* at least 30; when the text holds no regulatory, safety or compliance term
\* the total is at most 55.
C14_FullSopAtLeast30 ==
  FullSop =>
    /\ FullSopValues
    /\ card.total >= 3000
    /\ ScoredTerms = {} => card.total <= 5500

C14_Witness ==
  /\ FullSop
  /\ ScoredTerms = {}
  /\ card.total = 5500

\* ------------------------------------------------------ rounds of the loop
ScoreEvents == SelectSeq(trace, LAMBDA e : e.op = "score")

\* C15: a round takes the Met decision exactly when its two values satisfy
\* ease >= 60 and fog <= 12, both bounds inclusive and both required: the
\* call then returns and the success note closes the log; in every other
\* case the round requests a rewrite of the text it has just scored.
C15_MetIffBothBounds ==
  /\ \A k \in 1..Len(trace) :
       trace[k].op = "score" =>
         IF FGe(trace[k].fre, FInt(60)) /\ FLe(trace[k].gfi, FInt(12))
         THEN /\ k = Len(trace)
              /\ pc = "done"
              /\ logs[Len(logs)].kind = "met"
         ELSE \/ /\ k = Len(trace)
                 /\ pc = "rewrite"
                 /\ logs[Len(logs)].kind = "rewriting"
              \/ /\ k < Len(trace)
                 /\ trace[k + 1].op = "rewrite"
                 /\ trace[k + 1].arg = trace[k].arg
  /\ HasNote("met") <=>
       \E k \in 1..Len(trace) : trace[k].op = "score" /\ MeetsTargets(trace[k])

C15_Witness ==
  /\ pc = "done"
  /\ Len(ScoreEvents) = 3
  /\ FEq(ScoreEvents[1].fre, FInt(60)) /\ FEq(ScoreEvents[1].gfi, FInt(13))
  /\ FEq(ScoreEvents[2].fre, FInt(59)) /\ FEq(ScoreEvents[2].gfi, FInt(12))
  /\ FEq(ScoreEvents[3].fre, FInt(60)) /\ FEq(ScoreEvents[3].gfi, FInt(12))
  /\ Rewrites = 2
  /\ HasNote("met")

\* C16: rounds are sequential: the first event is the draft call, every
\* readability check comes right after the call whose text it scores (the
\* draft for round 1, the successful rewrite of round i for round i + 1),
\* and every rewrite call comes right after the check of its round, on the
\* text just checked: one rewrite call per round at most.
C16_RoundsSequential ==
  /\ trace # <<>> => trace[1].op = "draft"
  /\ \A k \in 2..Len(trace) :
       /\ trace[k].op # "draft"
       /\ trace[k].op = "score" =>
            /\ trace[k - 1].op \in {"draft", "rewrite"}
            /\ trace[k - 1].kind = "text"
            /\ trace[k].arg = trace[k - 1].out
       /\ trace[k].op = "rewrite" =>
            /\ trace[k - 1].op = "score"
            /\ trace[k].arg = trace[k - 1].arg
  /\ Rewrites <= Evals
  /\ pc = "round" => sop = LastEvent.out

C16_Witness ==
  /\ pc = "done"
  /\ Len(ScoreEvents) = 3
  /\ Rewrites = 2
  /\ ScoreEvents[1].arg # ScoreEvents[2].arg
  /\ ScoreEvents[2].arg # ScoreEvents[3].arg

\* C17 as stated: the log holds exactly one entry per loop iteration begun,
\* and the entries carry the round indices 1, 2, ... in order.
C17_OneEntryPerIteration ==
  /\ Len(logs) = Evals
  /\ \A k \in 1..Len(logs) : logs[k].kind = "round" /\ logs[k].round = k

\* the round entries of the log carry the indices 1, 2, ... in order, one
\* per iteration begun, each with the two values of that round's check
LogIndexed ==
  /\ Len(RoundEntries) = Evals
  /\ \A k \in 1..Len(RoundEntries) :
       /\ RoundEntries[k].round = k
       /\ RoundEntries[k].fre = Fmt2(ScoreEvents[k].fre)
       /\ RoundEntries[k].gfi = Fmt2(ScoreEvents[k].gfi)

\* a step keeps the elements the log has and appends: an iteration's check
\* appends its round entry and one note, every other step appends notes only
LogAppends ==
  /\ Len(logs') >= Len(logs)
  /\ SubSeq(logs', 1, Len(logs)) = logs
  /\ IF Len(trace') > Len(trace) /\ trace'[Len(trace')].op = "score"
     THEN /\ Len(logs') = Len(logs) + 2
          /\ logs'[Len(logs) + 1].kind = "round"
          /\ logs'[Len(logs) + 2].kind \in {"met", "rewriting"}
     ELSE \A k \in (Len(logs) + 1)..Len(logs') : logs'[k].kind # "round"

\* C17 as amended: the log grows only by append and gains exactly one round
\* entry per loop iteration, recording the round index and the two
\* readability values of that round and followed by one note (met or
\* rewriting); the round indices are 1, 2, ... in order without gaps, and
\* earlier elements are never changed or removed.
C17_OneRoundEntryPerIteration ==
  /\ []LogIndexed
  /\ [][LogAppends]_vars

C17_Witness ==
  /\ pc = "done"
  /\ Len(RoundEntries) = MaxRounds
  /\ RoundEntries[MaxRounds].round = MaxRounds
  /\ HasNote("rewrite_failed")

\* ------------------------------------------------ sub-scores and weights
\* the two piecewise-linear rules, with whole-number thresholds
HigherIsBetter(v, good, warn) ==
  IF FGe(v, FInt(good)) THEN FInt(1)
  ELSE IF FLe(v, FInt(warn)) THEN FInt(0)
  ELSE Frac(v[1] - warn * v[2], (good - warn) * v[2])

LowerIsBetter(v, good, warn) ==
  IF FLe(v, FInt(good)) THEN FInt(1)
  ELSE IF FGe(v, FInt(warn)) THEN FInt(0)
  ELSE Frac((warn - good) * v[2] - (v[1] - good * v[2]), (warn - good) * v[2])

\* C18: the sub-score of Flesch Reading Ease follows the higher-is-better
\* rule with good 60 and warn 40; the sub-scores of Gunning Fog Index
\* (12/15), Avg Sentence Length (20/25), Long Sentences Count (5/10),
\* Passive Voice Count (5/10) and ALL CAPS Section Count (0/2) follow the
\* lower-is-better rule.
C18_PiecewiseLinearByDirection ==
  scored.run =>
    /\ FEq(card.norm["Flesch Reading Ease"],
           HigherIsBetter(card.raw["Flesch Reading Ease"], 60, 40))
    /\ FEq(card.norm["Gunning Fog Index"],
           LowerIsBetter(card.raw["Gunning Fog Index"], 12, 15))
    /\ FEq(card.norm["Avg Sentence Length"],
           LowerIsBetter(card.raw["Avg Sentence Length"], 20, 25))
    /\ FEq(card.norm["Long Sentences Count"],
           LowerIsBetter(card.raw["Long Sentences Count"], 5, 10))
    /\ FEq(card.norm["Passive Voice Count"],
           LowerIsBetter(card.raw["Passive Voice Count"], 5, 10))
    /\ FEq(card.norm["ALL CAPS Section Count"],
           LowerIsBetter(card.raw["ALL CAPS Section Count"], 0, 2))

C18_Witness ==
  /\ scored.run
  /\ FEq(card.raw["Flesch Reading Ease"], FInt(50))
  /\ FEq(card.norm["Flesch Reading Ease"], Frac(1, 2))
  /\ FEq(card.raw["Gunning Fog Index"], FInt(14))
  /\ FEq(card.norm["Gunning Fog Index"], Frac(1, 3))
  /\ FEq(card.raw["Long Sentences Count"], FInt(7))
  /\ FEq(card.norm["Long Sentences Count"], Frac(3, 5))
  /\ FEq(card.norm["Avg Sentence Length"], FInt(0))

FractionMetrics ==
  {"Structure", "Regulatory Compliance", "Safety Risk Coverage",
   "Compliance Keywords Coverage", "Traceability & Version Control",
   "Technical Accuracy", "Bullet/Numbering Usage"}

\* C19: for the seven metrics with thresholds (1, 0.5) the sub-score is the
\* raw value clamped to [0, 1]: a raw value at or below 0.5 keeps its value
\* and is not mapped to 0.
C19_FractionsPassThrough ==
  scored.run =>
    \A m \in FractionMetrics :
      /\ ranges_pdf[m] = <<FInt(1), Frac(1, 2)>>
      /\ FEq(card.norm[m], FMax(FInt(0), FMin(FInt(1), card.raw[m])))
      /\ FLt(FInt(0), card.raw[m]) => FLt(FInt(0), card.norm[m])

C19_Witness ==
  /\ scored.run
  /\ FEq(card.norm["Structure"], Frac(1, 16))
  /\ FEq(card.norm["Traceability & Version Control"], Frac(1, 2))
  /\ FEq(card.norm["Regulatory Compliance"], FInt(0))

\* the 13 names carry a weight, thresholds and a raw value, and the weights
\* sum to 100
ThirteenWeighted ==
  /\ Cardinality(Metrics) = 13
  /\ DOMAIN weights_pdf = Metrics
  /\ DOMAIN ranges_pdf = Metrics
  /\ DOMAIN card.raw = Metrics
  /\ SumOver(weights_pdf, Metrics) = 100

\* C20 as stated: the weights sum to 100 over the same 13 names, each
\* weighted value is exactly sub-score times weight and the total is
\* exactly the sum of the 13 weighted values.
C20_TotalIsExactSum ==
  scored.run =>
    /\ ThirteenWeighted
    /\ \A m \in Metrics :
         card.weighted[m] * card.norm[m][2] = card.norm[m][1] * weights_pdf[m] * 10000
    /\ card.total * 100 = SumOver(card.weighted, Metrics)

\* C20 as amended: the weights sum to 100 over the same 13 names, each
\* weighted value is sub-score times weight rounded to 4 decimals (within
\* 0.00005 of the product) and the total is the sum of the 13 weighted
\* values rounded to 2 decimals (within 0.005 of the sum).
C20_TotalIsRoundedSum ==
  scored.run =>
    /\ ThirteenWeighted
    /\ \A m \in Metrics :
         LET d == card.weighted[m] * card.norm[m][2]
                    - card.norm[m][1] * weights_pdf[m] * 10000
         IN  /\ 2 * d <= card.norm[m][2]
             /\ 2 * (0 - d) <= card.norm[m][2]
    /\ LET e == card.total * 100 - SumOver(card.weighted, Metrics)
       IN  e <= 50 /\ 0 - e <= 50

C20_Witness ==
  /\ scored.run
  /\ FEq(card.norm["Gunning Fog Index"], Frac(1, 3))
  /\ card.weighted["Gunning Fog Index"] = 16667
  /\ card.total * 100 # SumOver(card.weighted, Metrics)

\* ------------------------------------------------- estimator and outcomes
\* the approximate formulas, on the words and sentences of a text
FleschFallback(text) ==
  LET wpS == Frac(WordCount(text), Max(1, Len(Sentences(text))))
      v == Frac(100 * wpS[2] - 5 * (wpS[1] - 14 * wpS[2]), wpS[2])
  IN  IF v[1] < 0 THEN FInt(0) ELSE v

FogFallback(text) ==
  LET wpS == Frac(WordCount(text), Max(1, Len(Sentences(text))))
      pct == Frac(100 * ComplexCount(text), Max(1, WordCount(text)))
  IN  Frac(2 * (wpS[1] * pct[2] + pct[1] * wpS[2]), 5 * wpS[2] * pct[2])

LastRoundEntry == RoundEntries[Len(RoundEntries)]

\* C22: a call that returns with the success note returns the text whose
\* values the last round entry records, those recorded values satisfy
\* ease >= 60 and fog <= 12, the error is None, and the rewrite calls made
\* are one fewer than the round entries.
C22_MetReturnsScoredText ==
  (pc = "done" /\ HasNote("met")) =>
    /\ LastEvent.op = "score"
    /\ ret = Returned(LastEvent.arg, None)
    /\ LastRoundEntry.fre = Fmt2(_flesch(ret.text[1].text, ret.text[1].ts))
    /\ LastRoundEntry.gfi = Fmt2(_gunning_fog(ret.text[1].text, ret.text[1].ts))
    /\ LastRoundEntry.fre >= 6000
    /\ LastRoundEntry.gfi <= 1200
    /\ Rewrites = Len(RoundEntries) - 1

C22_Witness ==
  /\ pc = "done"
  /\ HasNote("met")
  /\ Len(RoundEntries) = 3
  /\ LastRoundEntry.fre = 6000
  /\ LastRoundEntry.gfi = 1200

\* C23: a call that exhausts a budget of one round or more, every rewrite
\* succeeding, returns the output of its last rewrite call, and the loop has
\* not scored that output: the last event is the rewrite, the last round
\* entry records the values of the text passed to it, and the readability
\* checks are as many as the rewrite calls.
C23_ExhaustedReturnsUnscoredText ==
  (NothingMetAllRewritten /\ max_rounds >= 1) =>
    /\ LastEvent.op = "rewrite"
    /\ ret = Returned(LastEvent.out, None)
    /\ HasNote("max_rounds")
    /\ ~HasNote("met")
    /\ Evals = Rewrites
    /\ LastRoundEntry.round = max_rounds
    /\ LastRoundEntry.fre =
         Fmt2(_flesch(LastEvent.arg[1].text, LastEvent.arg[1].ts))
    /\ LastRoundEntry.gfi =
         Fmt2(_gunning_fog(LastEvent.arg[1].text, LastEvent.arg[1].ts))

\* the returned text meets the targets and the outcome is rounds exhausted
C23_Witness ==
  /\ NothingMetAllRewritten
  /\ max_rounds = MaxRounds
  /\ EaseFog(ret.text[1], 65, 10)
  /\ HasNote("max_rounds")
  /\ LastEvent.arg # LastEvent.out

\* C24: when the draft call gives an error or an empty text, or the source
\* text of the summary is blank (no generator call at all), the call returns
\* None, a non-empty error message and an empty log, and has made no
\* readability check and no rewrite call.
C24_FailedDraftReturnsError ==
  (pc = "done" /\ ~DraftOk) =>
    /\ ret.text = None
    /\ ret.err # None
    /\ ret.err[1] # ""
    /\ logs = <<>>
    /\ Evals = 0
    /\ Rewrites = 0
    /\ source_blank => trace = <<>>
    /\ ~source_blank => Len(trace) = 1

C24_Witness ==
  /\ pc = "done"
  /\ fn = "sop"
  /\ trace # <<>>
  /\ trace[1].kind = "api_error_blank"
  /\ ret.err = Some("Failed to draft SOP")

\* C25: range(max_rounds) is empty for every budget of 0 and below, and a
\* call whose loop runs no round after a successful draft makes no
\* readability check and no rewrite call, returns the draft with no error,
\* and its log holds the max-rounds note and nothing else.
C25_NoRoundWithoutBudget ==
  /\ \A n \in (0 - MaxRounds)..0 : ~sop_for_range(0, n) /\ ~summary_for_range(0, n)
  /\ (pc = "done" /\ DraftOk /\ max_rounds <= 0) =>
       /\ Evals = 0
       /\ Rewrites = 0
       /\ Len(trace) = 1
       /\ ret = Returned(trace[1].out, None)
       /\ Len(logs) = 1
       /\ logs[1].kind = "max_rounds"
       /\ RoundEntries = <<>>

C25_Witness ==
  /\ pc = "done"
  /\ DraftOk
  /\ max_rounds = 0
  /\ fn = "sop"
  /\ logs = <<Note("sop", "max_rounds", "")>>

\* ------------------------------------------------ the two copies compared
\* a log element without its wording
Plain(kind, k, fre, gfi, msg) ==
  [kind |-> kind, round |-> k, fre |-> fre, gfi |-> gfi, msg |-> msg]

PlainLog(l) ==
  [k \in 1..Len(l) |->
     Plain(l[k].kind, l[k].round, l[k].fre, l[k].gfi, l[k].msg)]

\* the message a failed request of that kind leaves
FailureMessage(kind) ==
  LET r == _chat_completion([kind |-> kind, doc |-> EmptyString])
  IN  IF r.err # None /\ r.err[1] # "" THEN r.err[1] ELSE "unknown error"

\* the log one control policy writes for a sequence of draft and rewrite
\* outcomes and readability values, whichever copy runs
RECURSIVE PolicyLog(_, _)
PolicyLog(t, k) ==
  IF t = <<>> THEN <<>>
  ELSE LET e == Head(t)
       IN  CASE e.op = "draft" -> PolicyLog(Tail(t), 1)
             [] e.op = "score" ->
                  <<Plain("round", k, Fmt2(e.fre), Fmt2(e.gfi), ""),
                    Plain(IF MeetsTargets(e) THEN "met" ELSE "rewriting", 0, 0, 0, "")>>
                  \o PolicyLog(Tail(t), k + 1)
             [] OTHER ->
                  (IF e.kind = "text" THEN <<>>
                   ELSE <<Plain("rewrite_failed", 0, 0, 0, FailureMessage(e.kind)),
                          Plain("max_rounds", 0, 0, 0, "")>>)
                  \o PolicyLog(Tail(t), k)

RanOut == LastEvent.op \in {"draft", "rewrite"} /\ LastEvent.kind = "text"

PolicyOutcome ==
  [logs |-> PolicyLog(trace, 1) \o
              (IF RanOut THEN <<Plain("max_rounds", 0, 0, 0, "")>> ELSE <<>>),
   ret |-> Returned(IF RanOut THEN LastEvent.out ELSE LastEvent.arg, None),
   rounds |-> IF RanOut THEN max_rounds ELSE Evals]

DbOutcomes == {"ok", "TypeError", "error"}
LegacyOutcomes == {"ok", "error"}

\* the account a login stores; roles are lower-case already
Accounts == {[id |-> 7, role |-> "user"], [id |-> 1, role |-> "admin"]}

_safe_int(x) == x

db_add_audit(rows, row, outcome) ==
  IF outcome = "ok" THEN Append(rows, row) ELSE rows

MemoryEntry(actor, uid, event, detail) ==
  [Actor |-> actor, UserID |-> uid, Event |-> event, Detail |-> detail]

_append_audit_memory_at_end(list, actor, uid, event, detail) ==
  Append(list, MemoryEntry(actor, uid, event, detail))
_append_audit_memory(list, actor, uid, event, detail) ==
  <<MemoryEntry(actor, uid, event, detail)>> \o list

\* add_audit of the dashboard: st is the two sinks before the call, v2 and
\* v1 what the full and the legacy database call run into; the result is
\* the two sinks after the call and whether an exception left the wrapper
add_audit(acct, actor, event, detail, v2, v1, st) ==
  LET role == IF acct = None THEN "user" ELSE acct[1].role
      uid == _safe_int(IF acct = None THEN None ELSE Some(acct[1].id))
      admin_id == IF role = "admin" THEN uid ELSE None
      user_id == IF role # "admin" THEN uid ELSE None
      full == [actor |-> actor,
               actor_role |-> IF role \in {"user", "admin", "system", "assistant"}
                              THEN Some(role) ELSE None,
               admin_id |-> admin_id, user_id |-> user_id,
               event |-> event, detail |-> detail]
      legacy == [actor |-> actor, actor_role |-> None, admin_id |-> None,
                 user_id |-> IF user_id # None THEN user_id ELSE admin_id,
                 event |-> event, detail |-> detail]
  IN  CASE v2 = "ok" ->
             [db |-> db_add_audit(st.db, full, v2), audit |-> st.audit,
              raised |-> FALSE]
        [] v2 = "TypeError" /\ v1 = "ok" ->
             [db |-> db_add_audit(st.db, legacy, v1), audit |-> st.audit,
              raised |-> FALSE]
        [] v2 = "TypeError" /\ v1 # "ok" ->
             [db |-> st.db,
              audit |-> _append_audit_memory(st.audit, actor, uid, event,
                                             <<"(DB v1 fail)", detail>>),
              raised |-> FALSE]
        [] OTHER ->
             [db |-> st.db,
              audit |-> _append_audit_memory(st.audit, actor, uid, event,
                                             <<"(DB v2 fail)", detail>>),
              raised |-> FALSE]

\* one add_audit call: both sinks after it, and the call as made
AuditCall(actor, event, detail, v2, v1) ==
  LET r == add_audit(account, actor, event, detail, v2, v1,
                     [db |-> db, audit |-> audit])
  IN  /\ db' = r.db
      /\ audit' = r.audit
      /\ call' = [actor |-> actor, event |-> event, detail |-> detail,
                  v2 |-> v2, v1 |-> IF v2 = "TypeError" THEN v1 ELSE "not tried"]
      /\ ncalls' = ncalls + 1

\* The wrapper on its own: a page script of a session with or without an
\* account calls add_audit, and the database does to each call what it
\* likes.
AuditEvents ==
  {<<"User", "SOP uploaded">>, <<"Assistant", "Replied">>}

AuditInit ==
  /\ _HAS_TEXTSTAT = TRUE
  /\ doc = <<>>
  /\ scored = [run |-> FALSE, text |-> <<>>, ts |-> TextstatMissing]
  /\ card = NoCard
  /\ rescored = FALSE
  /\ prev = NoRun
  /\ LoopIdle
  /\ PageIdle
  /\ AuditIdle
  /\ RegIdle

\* login.py: a login stores the account
login_stores_account ==
  /\ account = None
  /\ \E acct \in Accounts : account' = Some(acct)
  /\ UNCHANGED <<page, action, uploaded, user_prompt, step, visits, produced>>
  /\ UNCHANGED <<dashVars, auditVars>>
  /\ UNCHANGED <<_HAS_TEXTSTAT, scorerVars, loopVars, regVars>>

add_audit_call ==
  /\ ncalls < MaxAudits
  /\ \E e \in AuditEvents, v2 \in DbOutcomes, v1 \in LegacyOutcomes :
       AuditCall(e[1], e[2], "a.txt", v2, v1)
  /\ UNCHANGED db_mode
  /\ UNCHANGED <<pageVars, dashVars>>
  /\ UNCHANGED <<_HAS_TEXTSTAT, scorerVars, loopVars, regVars>>

AuditNext == login_stores_account \/ add_audit_call

AuditSpec == AuditInit /\ [][AuditNext]_vars

\* How the database behaves towards one dashboard session
DbModes ==
  {[v2 |-> "ok", v1 |-> "ok"], [v2 |-> "TypeError", v1 |-> "ok"],
   [v2 |-> "TypeError", v1 |-> "error"], [v2 |-> "error", v1 |-> "ok"]}

\* one add_audit call of the page script, which then goes on at next (an
\* exception leaving the wrapper would end the page run)
Audited(actor, event, detail, next) ==
  /\ AuditCall(actor, event, detail, db_mode.v2, db_mode.v1)
  /\ step' = IF add_audit(account, actor, event, detail, db_mode.v2,
                          db_mode.v1, [db |-> db, audit |-> audit]).raised
             THEN "idle" ELSE next
  /\ UNCHANGED db_mode

\* ----------------------------------------------------- the dashboard page
\* Files the uploader can hold: a name and the bytes.  Two files of one
\* name and one length, one longer file, one of another name.
Files ==
  {[name |-> "a.txt", bytes |-> <<1>>], [name |-> "a.txt", bytes |-> <<2>>],
   [name |-> "a.txt", bytes |-> <<1, 2>>], [name |-> "b.pdf", bytes |-> <<1>>]}
QueryActions == {None, Some("logout"), Some("my_docs")}
Prompts == {"", "generate sop for x", "what is this"}

file_sig_name_only(f) == <<f.name, 0>>
file_sig(f) == <<f.name, Len(f.bytes)>>

\* text extraction: the bytes as text; a .pdf may fail to parse (or the
\* parser is not installed) and then the text is ""
extracted_texts(f) ==
  IF f.name = "a.txt" THEN {f.bytes} ELSE {f.bytes, <<>>}

summarize_heuristic(text) ==
  IF text = <<>> THEN [by |-> "default", src |-> <<>>, doc |-> EmptyString]
  ELSE [by |-> "heuristic", src |-> text, doc |-> EmptyString]

\* lines 1322-1328: the model summary, or the heuristic one
sop_style_summary(extracted_text, o) ==
  LET r == IF extracted_text # <<>> THEN gpt_summarize_to_sop(o)
           ELSE [text |-> None, err |-> Some("No text extracted"), exc |-> FALSE]
  IN  IF Truthy(r.err) \/ Falsy(r.text) THEN summarize_heuristic(extracted_text)
      ELSE [by |-> "model", src |-> <<>>, doc |-> r.text[1]]

\* the DOCX and the score are named after the text they were made from
make_docx_summary_from_template(text) == [docx_of |-> text]
summary_score(text) == [score_of |-> text]

\* what the summary request runs into: any failure, or one answer
SummaryOutcomes ==
  {o \in ChatOutcomes :
     o.kind = "text" => o.doc = [text |-> <<"Purpose">>, ts |-> TextstatMissing]}

\* what generate_optimized_sop(topic, max_rounds=3) hands to the page: an
\* error, or a text
GenerationResults ==
  {Returned(None, Some("api error")),
   Returned(Some([text |-> <<"Purpose">>, ts |-> TextstatMissing]), None)}

gate_redirects_never(acct) == FALSE
gate_redirects(acct) == acct = None

\* the user opens or reruns the dashboard: the query parameter, the file in
\* the uploader and the chat input are the user's
Visit ==
  /\ step = "idle"
  /\ visits < MaxVisits
  /\ \E a \in QueryActions, f \in {None} \cup {Some(x) : x \in Files},
        p \in Prompts :
       /\ action' = a
       /\ uploaded' = f
       /\ user_prompt' = p
  /\ page' = "dashboard"
  /\ step' = "gate"
  /\ visits' = visits + 1
  /\ produced' = {}
  /\ UNCHANGED <<account, dashVars, auditVars>>
  /\ UNCHANGED <<_HAS_TEXTSTAT, scorerVars, loopVars, regVars>>

\* login.py, "Log in as User": login_user answers with an account (with
\* None the page stays as it is); st.switch_page starts the dashboard
user_login ==
  /\ step = "idle"
  /\ page = "login"
  /\ \E acct \in {a \in Accounts : a.role = "user"} :
       account' = Some(acct)
  /\ page' = "dashboard"
  /\ step' = "gate"
  /\ action' = None
  /\ uploaded' = None
  /\ user_prompt' = ""
  /\ produced' = {}
  /\ UNCHANGED visits
  /\ UNCHANGED <<dashVars, auditVars>>
  /\ UNCHANGED <<_HAS_TEXTSTAT, scorerVars, loopVars, regVars>>

\* login.py, "Log in as Admin": the account is stored and the admin page
\* opens; the session can open the user dashboard from there
admin_login ==
  /\ step = "idle"
  /\ page = "login"
  /\ \E acct \in {a \in Accounts : a.role = "admin"} :
       account' = Some(acct)
  /\ page' = "admin"
  /\ UNCHANGED <<action, uploaded, user_prompt, step, visits, produced>>
  /\ UNCHANGED <<dashVars, auditVars>>
  /\ UNCHANGED <<_HAS_TEXTSTAT, scorerVars, loopVars, regVars>>

\* lines 73-76: st.switch_page ends the page run
login_gate ==
  /\ step = "gate"
  /\ IF gate_redirects(account)
     THEN /\ page' = "login"
          /\ step' = "idle"
     ELSE /\ step' = "router"
          /\ UNCHANGED page
  /\ UNCHANGED <<account, action, uploaded, user_prompt, visits, produced>>
  /\ UNCHANGED <<dashVars, auditVars>>
  /\ UNCHANGED <<_HAS_TEXTSTAT, scorerVars, loopVars, regVars>>

\* lines 78-97: st.switch_page ends the page run, st.rerun starts it again
action_router ==
  /\ step = "router"
  /\ CASE action = Some("logout") ->
            /\ account' = None
            /\ action' = None
            /\ page' = "login"
            /\ step' = "idle"
            /\ UNCHANGED jump_to_uploads
       [] action = Some("my_docs") ->
            /\ jump_to_uploads' = TRUE
            /\ action' = None
            /\ step' = "gate"
            /\ UNCHANGED <<account, page>>
       [] OTHER ->
            /\ step' = "upload"
            /\ UNCHANGED <<account, action, page, jump_to_uploads>>
  /\ UNCHANGED <<uploaded, user_prompt, visits, produced>>
  /\ UNCHANGED <<last_file_id, summary, summary_docx, summary_quality_score,
                 generated_sop_md>>
  /\ UNCHANGED auditVars
  /\ UNCHANGED <<_HAS_TEXTSTAT, scorerVars, loopVars, regVars>>

\* lines 1278-1290: the uploader and the signature test
upload_check ==
  /\ step = "upload"
  /\ jump_to_uploads' = FALSE
  /\ step' = IF uploaded # None /\ last_file_id # Some(file_sig(uploaded[1]))
             THEN "summarize" ELSE "chat"
  /\ UNCHANGED <<page, account, action, uploaded, user_prompt, visits, produced>>
  /\ UNCHANGED <<last_file_id, summary, summary_docx, summary_quality_score,
                 generated_sop_md>>
  /\ UNCHANGED auditVars
  /\ UNCHANGED <<_HAS_TEXTSTAT, scorerVars, loopVars, regVars>>

\* lines 1292-1330: extract the text, summarize it, store the summary
upload_summarize ==
  /\ step = "summarize"
  /\ \E text \in extracted_texts(uploaded[1]), o \in SummaryOutcomes :
       IF gpt_summarize_to_sop(o).exc /\ text # <<>>
       THEN /\ step' = "idle"
            /\ UNCHANGED <<summary, produced>>
       ELSE /\ summary' = sop_style_summary(text, o)
            /\ produced' = produced \cup {"summary"}
            /\ step' = "docx"
  /\ UNCHANGED <<page, account, action, uploaded, user_prompt, visits>>
  /\ UNCHANGED <<jump_to_uploads, last_file_id, summary_docx,
                 summary_quality_score, generated_sop_md>>
  /\ UNCHANGED auditVars
  /\ UNCHANGED <<_HAS_TEXTSTAT, scorerVars, loopVars, regVars>>

\* lines 1332-1346: the summary DOCX, then the matrix and the score
upload_docx_and_score ==
  /\ step = "docx"
  /\ summary_docx' = Some(make_docx_summary_from_template(summary))
  /\ summary_quality_score' = Some(summary_score(summary))
  /\ produced' = produced \cup {"docx", "score"}
  /\ step' = "audit uploaded"
  /\ UNCHANGED <<page, account, action, uploaded, user_prompt, visits>>
  /\ UNCHANGED <<jump_to_uploads, last_file_id, summary, generated_sop_md>>
  /\ UNCHANGED auditVars
  /\ UNCHANGED <<_HAS_TEXTSTAT, scorerVars, loopVars, regVars>>

\* line 1348
upload_audit_uploaded ==
  /\ step = "audit uploaded"
  /\ Audited("User", "SOP uploaded", uploaded[1].name, "audit summarized")
  /\ produced' = produced \cup {"SOP uploaded"}
  /\ UNCHANGED <<page, account, action, uploaded, user_prompt, visits>>
  /\ UNCHANGED dashVars
  /\ UNCHANGED <<_HAS_TEXTSTAT, scorerVars, loopVars, regVars>>

\* line 1349
upload_audit_summarized ==
  /\ step = "audit summarized"
  /\ Audited("System", "SOP summarized", uploaded[1].name, "remember")
  /\ produced' = produced \cup {"SOP summarized"}
  /\ UNCHANGED <<page, account, action, uploaded, user_prompt, visits>>
  /\ UNCHANGED dashVars
  /\ UNCHANGED <<_HAS_TEXTSTAT, scorerVars, loopVars, regVars>>

\* line 1352
upload_remember ==
  /\ step = "remember"
  /\ last_file_id' = Some(file_sig(uploaded[1]))
  /\ step' = "chat"
  /\ UNCHANGED <<page, account, action, uploaded, user_prompt, visits, produced>>
  /\ UNCHANGED <<jump_to_uploads, summary, summary_docx, summary_quality_score,
                 generated_sop_md>>
  /\ UNCHANGED auditVars
  /\ UNCHANGED <<_HAS_TEXTSTAT, scorerVars, loopVars, regVars>>

\* lines 1385-1476: the chat input; a prompt that names a topic starts the
\* generation, any other prompt is answered from the summary
chat ==
  /\ step = "chat"
  /\ CASE user_prompt = "" ->
            /\ step' = "idle"
            /\ UNCHANGED <<generated_sop_md, auditVars>>
       [] user_prompt = "generate sop for x" ->
            \E r \in GenerationResults :
              IF Truthy(r.err) \/ Falsy(r.text)
              THEN /\ step' = "idle"
                   /\ UNCHANGED <<generated_sop_md, auditVars>>
              ELSE /\ generated_sop_md' = r.text[1]
                   /\ Audited("Assistant", "Generated SOP", "x", "idle")
       [] OTHER ->
            /\ Audited("Assistant", "Replied", "reply", "idle")
            /\ UNCHANGED generated_sop_md
  /\ UNCHANGED <<page, account, action, uploaded, user_prompt, visits, produced>>
  /\ UNCHANGED <<jump_to_uploads, last_file_id, summary, summary_docx,
                 summary_quality_score>>
  /\ UNCHANGED <<_HAS_TEXTSTAT, scorerVars, loopVars, regVars>>

PageInit ==
  /\ _HAS_TEXTSTAT = TRUE
  /\ doc = <<>>
  /\ scored = [run |-> FALSE, text |-> <<>>, ts |-> TextstatMissing]
  /\ card = NoCard
  /\ rescored = FALSE
  /\ prev = NoRun
  /\ LoopIdle
  /\ PageIdle
  /\ NoAudits
  /\ db_mode \in DbModes
  /\ RegIdle

PageNext ==
  \/ Visit
  \/ user_login
  \/ admin_login
  \/ login_gate
  \/ action_router
  \/ upload_check
  \/ upload_summarize
  \/ upload_docx_and_score
  \/ upload_audit_uploaded
  \/ upload_audit_summarized
  \/ upload_remember
  \/ chat

PageSpec == PageInit /\ [][PageNext]_vars

\* ---------------------------------------------------------- registration
\* register.py keeps its users in st.session_state.users.  A string is the
\* sequence of its characters.
ToLower ==
  [A |-> "a", B |-> "b", C |-> "c", I |-> "i", N |-> "n", O |-> "o",
   X |-> "x"]
Uppercase == DOMAIN ToLower
Lowercase == {ToLower[c] : c \in Uppercase}
Digits == {"0", "1"}

lower(s) ==
  [k \in 1..Len(s) |-> IF s[k] \in Uppercase THEN ToLower[s[k]] ELSE s[k]]

RECURSIVE lstrip(_)
lstrip(s) == IF s # <<>> /\ s[1] = " " THEN lstrip(Tail(s)) ELSE s

RECURSIVE rstrip(_)
rstrip(s) ==
  IF s # <<>> /\ s[Len(s)] = " " THEN rstrip(SubSeq(s, 1, Len(s) - 1)) ELSE s

strip(s) == rstrip(lstrip(s))

\* EMAIL_RE: local part, "@", domain, ".", two letters or more
valid_email(email) ==
  \E at \in 1..Len(email), dot \in 1..Len(email) :
    /\ email[at] = "@"
    /\ email[dot] = "."
    /\ at > 1
    /\ dot > at + 1
    /\ Len(email) - dot >= 2
    /\ \A k \in 1..(at - 1) :
         email[k] \in Uppercase \cup Lowercase \cup Digits \cup {".", "_", "%", "+", "-"}
    /\ \A k \in (at + 1)..(dot - 1) :
         email[k] \in Uppercase \cup Lowercase \cup Digits \cup {".", "-"}
    /\ \A k \in (dot + 1)..Len(email) : email[k] \in Uppercase \cup Lowercase

\* USERNAME_RE: 3 to 24 letters, digits or "_"
valid_username(username) ==
  /\ Len(username) >= 3
  /\ Len(username) <= 24
  /\ \A k \in 1..Len(username) :
       username[k] \in Uppercase \cup Lowercase \cup Digits \cup {"_"}

\* is_ok of password_strength
password_strength(pw) ==
  /\ pw # <<>>
  /\ Len(pw) >= 8
  /\ \E k \in 1..Len(pw) : pw[k] \in Uppercase
  /\ \E k \in 1..Len(pw) : pw[k] \in Lowercase
  /\ \E k \in 1..Len(pw) : pw[k] \in Digits
  /\ \E k \in 1..Len(pw) : pw[k] \notin Uppercase \cup Lowercase \cup Digits

\* the derived key is named after the password and the salt; the salt of
\* a new user is random and written "salt"
hash_password(password, salt) == <<password, salt>>
verify_password(password, salt, expected_hash) ==
  hash_password(password, salt) = expected_hash

user_exists_email_only(email, username, list) ==
  \E k \in 1..Len(list) : list[k].email = lower(strip(email))
user_exists(email, username, list) ==
  \E k \in 1..Len(list) :
    \/ list[k].email = lower(strip(email))
    \/ list[k].username = lower(strip(username))

\* the first user of that email, or None
get_user_by_email(email, list) ==
  LET found == SelectSeq(list, LAMBDA u : u.email = lower(strip(email)))
  IN  IF found = <<>> THEN None ELSE Some(found[1])

\* what the forms are filled with
RawEmails ==
  {<<"a", "@", "x", ".", "i", "o">>, <<"A", "@", "X", ".", "I", "O">>,
   <<" ", "a", "@", "x", ".", "i", "o">>, <<"b", "@", "x", ".", "i", "o">>,
   <<"a", "@", "x">>}
RawUsernames ==
  {<<"a", "n", "n">>, <<"A", "N", "N">>, <<"a", "n", "n", " ">>,
   <<"b", "o", "b">>, <<"a", "n">>}
Passwords ==
  {<<"A", "b", "c", "0", "1", "!", "x", "x">>, <<"a", "b", "c">>}
FullNames == {<<" ">>, <<"A", "n", "n">>}
Avatars == {"none", "small", "large"}

\* registration_card: the register form is submitted
registration_card ==
  /\ auth_user = None
  /\ \E full_name \in FullNames, email \in RawEmails, username \in RawUsernames,
        pw \in Passwords, pw2 \in Passwords, avatar \in Avatars,
        agree \in BOOLEAN :
       LET errors ==
             \/ strip(full_name) = <<>>
             \/ ~valid_email(email)
             \/ ~valid_username(username)
             \/ ~password_strength(pw)
             \/ pw # pw2
             \/ avatar = "large"
             \/ ~agree
             \/ user_exists(email, username, users)
           user == [email |-> lower(strip(email)),
                    username |-> lower(strip(username)),
                    full_name |-> strip(full_name),
                    pw_hash |-> hash_password(pw, "salt"),
                    pw_salt |-> "salt",
                    avatar_path |-> IF avatar = "none" THEN None
                                    ELSE Some(lower(strip(username)))]
       IN  /\ users' = IF errors THEN users ELSE Append(users, user)
           /\ submitted' = [op |-> "register", email |-> email,
                            username |-> username]
  /\ UNCHANGED auth_user
  /\ UNCHANGED <<pageVars, dashVars, auditVars>>
  /\ UNCHANGED <<_HAS_TEXTSTAT, scorerVars, loopVars>>

\* login_card: the login form is submitted
login_card ==
  /\ auth_user = None
  /\ \E email \in RawEmails, pw \in Passwords :
       LET user == get_user_by_email(email, users)
       IN  /\ auth_user' =
                IF user = None THEN auth_user
                ELSE IF ~verify_password(pw, user[1].pw_salt, user[1].pw_hash)
                THEN auth_user
                ELSE Some(user[1].email)
           /\ submitted' = [op |-> "login", email |-> email, username |-> <<>>]
  /\ UNCHANGED users
  /\ UNCHANGED <<pageVars, dashVars, auditVars>>
  /\ UNCHANGED <<_HAS_TEXTSTAT, scorerVars, loopVars>>

\* authed_area: the signed-in area with one of its two buttons pressed;
\* without a user of that email the session is signed out
authed_area ==
  /\ auth_user # None
  /\ \E button \in {"Log out", "Delete my account"} :
       LET user == get_user_by_email(auth_user[1], users)
       IN  /\ auth_user' = None
           /\ users' = IF user # None /\ button = "Delete my account"
                       THEN SelectSeq(users, LAMBDA u : u.email # user[1].email)
                       ELSE users
           /\ submitted' = [op |-> button, email |-> <<>>, username |-> <<>>]
  /\ UNCHANGED <<pageVars, dashVars, auditVars>>
  /\ UNCHANGED <<_HAS_TEXTSTAT, scorerVars, loopVars>>

RegisterInit ==
  /\ _HAS_TEXTSTAT = TRUE
  /\ doc = <<>>
  /\ scored = [run |-> FALSE, text |-> <<>>, ts |-> TextstatMissing]
  /\ card = NoCard
  /\ rescored = FALSE
  /\ prev = NoRun
  /\ LoopIdle
  /\ AppIdle

RegisterNext == registration_card \/ login_card \/ authed_area

RegisterSpec == RegisterInit /\ [][RegisterNext]_vars

\* ------------------------------------------------- audits, uploads, users
\* the last add_audit call found every database call it made failing
CallFailed(c) ==
  \/ c.v2 = "error"
  \/ c.v2 = "TypeError" /\ c.v1 = "error"

\* the row or entry is the one of the call
RowOf(row, c) ==
  row.actor = c.actor /\ row.event = c.event /\ row.detail = c.detail
EntryOf(entry, c) ==
  entry.Actor = c.actor /\ entry.Event = c.event /\ entry.Detail[2] = c.detail

\* C27: a call of the add_audit wrapper never raises and records its event
\* in exactly one sink: when the full database call succeeds, or it raises
\* TypeError and the legacy call succeeds, one row of the event is added to
\* the database and the session list is untouched; when the database calls
\* made fail, the database is untouched and one entry of the event is put
\* at index 0 of the session list, before the entries already there.
C27_EachEventInOneSink ==
  [][ncalls' = ncalls + 1 =>
       LET c == call'
       IN  /\ ~add_audit(account, c.actor, c.event, c.detail, c.v2, c.v1,
                         [db |-> db, audit |-> audit]).raised
           /\ ~CallFailed(c) =>
                /\ audit' = audit
                /\ Len(db') = Len(db) + 1
                /\ SubSeq(db', 1, Len(db)) = db
                /\ RowOf(db'[Len(db')], c)
           /\ CallFailed(c) =>
                /\ db' = db
                /\ Len(audit') = Len(audit) + 1
                /\ Tail(audit') = audit
                /\ EntryOf(audit'[1], c)]_vars

\* a call whose two database calls failed put its entry in front of an
\* older entry, after another call had reached the database
C27_Witness ==
  /\ ncalls = 3
  /\ call.v2 = "TypeError"
  /\ call.v1 = "error"
  /\ Len(db) = 1
  /\ Len(audit) = 2
  /\ EntryOf(audit[1], call)
  /\ audit[1].Detail[1] = "(DB v1 fail)"
  /\ audit[2].Event # call.event

\* name and byte length of the file in the uploader
Signature == <<uploaded[1].name, Len(uploaded[1].bytes)>>
SameFile == uploaded # None /\ last_file_id = Some(Signature)
Processing ==
  {"summarize", "docx", "audit uploaded", "audit summarized", "remember"}
UploadEvents == {"SOP uploaded", "SOP summarized"}

\* C28: the upload is processed once per file signature.  A page run whose
\* uploader holds the file of last_file_id goes past the processing, and
\* summary, DOCX, score and the two upload audits are made only while a
\* file of another signature is processed; last_file_id changes only to the
\* signature of the uploaded file, after its summary, DOCX, score and both
\* audit events were produced in this page run; a file of another
\* signature is processed.
C28_ProcessedOncePerSignature ==
  /\ [](step \in Processing => uploaded # None /\ ~SameFile)
  /\ [][/\ (step = "upload" /\ SameFile) => step' = "chat"
        /\ (step = "upload" /\ uploaded # None /\ ~SameFile) => step' = "summarize"
        /\ (\/ summary' # summary
            \/ summary_docx' # summary_docx
            \/ summary_quality_score' # summary_quality_score
            \/ ncalls' # ncalls /\ call'.event \in UploadEvents)
           => step \in Processing
        /\ last_file_id' # last_file_id =>
             /\ last_file_id' = Some(Signature)
             /\ produced = {"summary", "docx", "score"} \cup UploadEvents
             /\ summary.by # ""
             /\ summary_docx = Some(make_docx_summary_from_template(summary))
             /\ summary_quality_score = Some(summary_score(summary))]_vars

\* the second page run found the file of the first still in the uploader
\* and went past the processing: nothing was produced, the two audits of
\* the first run are the only ones
C28_Witness ==
  /\ visits = 2
  /\ step = "chat"
  /\ SameFile
  /\ produced = {}
  /\ summary.by # ""
  /\ ncalls = 2
  /\ call.event = "SOP summarized"

\* what the dashboard does is seen in these
Done == <<dashVars, audit, db, ncalls>>

\* C30: the dashboard is gated on the session account.  A page run with no
\* account goes to the login page at the gate with nothing done, a run
\* with action=logout removes the account and goes to the login page, and
\* every step past the gate, and every change the dashboard makes, happens
\* with an account in the session.
C30_GatedOnAccount ==
  /\ [](step \notin {"idle", "gate"} => account # None)
  /\ [][/\ (step = "gate" /\ account = None) =>
             (page' = "login" /\ step' = "idle" /\ Done' = Done)
        /\ (step = "router" /\ action = Some("logout")) =>
             (account' = None /\ page' = "login" /\ step' = "idle")
        /\ Done' # Done => account # None /\ account' # None]_vars

\* a page run with a file in the uploader and a prompt in the chat input,
\* but no account, ended on the login page with nothing done
C30_Witness ==
  /\ visits = 1
  /\ account = None
  /\ page = "login"
  /\ step = "idle"
  /\ uploaded # None
  /\ user_prompt # ""
  /\ summary = NoSummary
  /\ ncalls = 0

\* strip() and lower() as the claim reads them
Normalized(s) == lower(strip(s))
Collides(email, username) ==
  \E k \in 1..Len(users) :
    \/ Normalized(users[k].email) = Normalized(email)
    \/ Normalized(users[k].username) = Normalized(username)

\* C29: no two stored users share the normalized email or the normalized
\* username, and a registration whose email or username collides with a
\* stored user leaves the user list as it was.
C29_UsersAreUnique ==
  /\ [](\A j, k \in 1..Len(users) :
          j # k => /\ Normalized(users[j].email) # Normalized(users[k].email)
                   /\ Normalized(users[j].username) # Normalized(users[k].username))
  /\ [][(submitted'.op = "register"
         /\ Collides(submitted'.email, submitted'.username))
        => users' = users]_vars

\* one user is stored, and the form with that user's email in upper case
\* and a username nobody has was turned down
C29_Witness ==
  /\ Len(users) = 1
  /\ users[1].email = <<"a", "@", "x", ".", "i", "o">>
  /\ users[1].username = <<"a", "n", "n">>
  /\ submitted.op = "register"
  /\ submitted.email = <<"A", "@", "X", ".", "I", "O">>
  /\ submitted.username = <<"b", "o", "b">>
====
